---- MODULE Spec2Model ----
(***************************************************************************)
(* Verification model of neovim-mac's core:                                *)
(*   - the RPC response handler table (src/src/neovim.cpp, neovim.hpp)     *)
(*   - the triple buffered grid hand-off (src/src/ui.hpp, ui.cpp)          *)
(*   - the I/O loop of process: dispatch sources, the outbound buffer,     *)
(*     the teardown and the synchronous calls (src/src/neovim.cpp)         *)
(* Each part has its own specification over the shared variable tuple.     *)
(***************************************************************************)
EXTENDS Integers, Sequences, FiniteSets, TLC

(***************************************************************************)
(* Bounds of the model.                                                    *)
(***************************************************************************)
\* Initial number of slots of handler_table. The program starts with 16
\* (neovim.hpp:178); the slot search and the doubling do not depend on the
\* number, so the model starts smaller to reach the doubling.
InitTableSize == 2
\* Largest number of response contexts the deque may hold.
MaxContexts == 3
\* Largest number of slots handler_table may grow to.
MaxTableSize == 4
\* Largest number of response contexts under LiveRpc.
MaxLiveContexts == 2

\* Largest number of flush events processed.
MaxFlush == 2

\* Number of threads that call the API of process.
MaxThreads == 2
\* Largest number of rpc_request calls.
MaxRequests == 2
\* Largest number of times read() reports the end of the stream.
MaxEof == 2
\* Largest number of synchronous calls the main thread makes.
MaxCalls == 2
\* Largest number of bytes inserted into a circular_buffer.
MaxRingBytes == 10
\* Largest number of bytes of one insert.
MaxInsert == 5
\* Largest capacity asked of reserve.
MaxReserve == 9
\* Largest number of assignments to one circular_buffer.
MaxAssign == 1
\* The messages of one stream handed to the unpacker.
MaxMessages == 2
\* The redraw events applied to one grid.
MaxEvents == 2
\* The redraw notifications one controller handles.
MaxRedraws == 2
\* vm_page_size, scaled down: the capacities are powers of two that are
\* multiples of it.
PageSize == 4

\* The null pointer of response_context*.
Null == 0
\* null_msgid, std::numeric_limits<uint32_t>::max(): "this request / response
\* has no handler". Written as its 32 bit two's complement pattern, -1.
null_msgid == -1

VARIABLES
    \* ---- process::response_handler_table ----
    handler_table,  \* sequence of context ids or Null; msgid i is index i+1
    contexts,       \* the deque of response_context records
    freelist,       \* stack of freed context ids
    last_index,     \* hint of the slot search
    timers,         \* dispatch_after blocks that have not run yet
    calls,          \* per context: the timed_out flags its handler was called with
    events,         \* per context: the replies processed and timers fired
                    \* since it was registered, in order
    silent,         \* contexts whose request the peer never answers
    rpc_log,        \* last error logged by on_rpc_response
    rpc_abort,      \* the process was terminated by a fault in the RPC layer
    \* ---- ui_controller ----
    triple_buffered,\* the three grid objects
    complete,       \* std::atomic<grid*>: the most recent complete grid
    writing,        \* the grid the I/O context writes to
    drawing,        \* the grid the presentation context uses
    hl_table,       \* the highlight table
    signal_flush,   \* a semaphore waits for the next flush
    signal_enter,   \* a semaphore waits for the first flush after VimEnter
    semaphore,      \* the count of process::semaphore
    redraws,        \* number of window.redraw() calls
    flush_pc,       \* position of the I/O context inside flush()
    completed,      \* flush(): the local variable completed
    get_pc,         \* position of the presentation context inside
                    \* get_global_grid()
    tick,           \* get_global_grid(): the local variable tick
    ui_abort,       \* the process was terminated by the UI layer
    \* ---- history of the hand-off ----
    flushes,        \* number of flush() calls that have returned
    published,      \* draw ticks of the grids put into complete by flush
    flush_note,     \* what the last flush did: signalled or called redraw
    exchanges,      \* exchanges made by the current get_global_grid call
    call_flushes,   \* value of flushes when the current call started
    returned,       \* get_global_grid results: ticks of the last two, the
                    \* flushes before the last, and its exchanges
    \* ---- process: I/O ----
    write_state,    \* dispatch_source_state of the write source
    read_state,     \* dispatch_source_state of the read source
    write_suspended,\* libdispatch: suspension count of the write source
    cancelled,      \* libdispatch: the sources that were cancelled
    queue_blocks,   \* cancel handlers submitted to the queue, not yet run
    packer,         \* the bytes of the outbound buffer
    write_lock,     \* 0 when free, else the thread that holds it
    api,            \* per thread: its position inside the API call
    wire,           \* the bytes write() has taken, in order
    sent,           \* the requests, in the order they took write_lock
    inbox,          \* io_can_read: objects unpacked, not yet handled
    peer_closed,    \* read() has returned 0
    io_log,         \* window and source events of the teardown, and the
                    \* timer blocks run after it began, in order
    io_abort,       \* why the process was terminated, "none" if it runs
    msg_class,      \* how on_rpc_message treated the last object
    mode,           \* get_mode: the local variable mode
    results,        \* the synchronous calls that returned, with their
                    \* results, in order
    \* ---- circular_buffer ----
    cbuf,           \* the object: buffer, index, length, buffsize
    cbuf_fifo,      \* the bytes inserted and not yet consumed, in order
    cbuf_ops,       \* the number of bytes inserted so far
    cbuf_assigns,   \* the number of assignments to the buffer
    \* ---- msg::unpacker ----
    unp,            \* the promise and the frame of the coroutine
    codec_vals,     \* the values packed into the stream
    codec_rest,     \* the bytes of the stream not yet fed
    codec_out,      \* the objects unpack() has returned, in order
    codec_ret,      \* what the last call did: "fed", "object", "nullptr"
    codec_bytewise, \* no chunk fed was longer than one byte
    codec_empty,    \* an empty chunk was fed
    \* ---- ui_controller: one grid and the events that write it ----
    cg,             \* the writing grid
    cg_prev,        \* the grid before the last event
    cg_event,       \* the last event: its name and arguments
    cg_count,       \* the number of events applied
    cg_abort,       \* an event has left the process without a defined
                    \* state
    \* ---- ui_controller: redraw ----
    ui,             \* the fields of the controller the redraw handlers
                    \* use: the writing grid and its cursor attributes,
                    \* the grid flush published, the highlight and mode
                    \* tables, the options, the pending waiters, what the
                    \* window was told, and whether the process was
                    \* terminated
    ui_prev,        \* ui before the last redraw notification
    ui_events,      \* the events of the last redraw notification
    ui_count        \* the number of redraw notifications handled

rpc_vars == <<handler_table, contexts, freelist, last_index, timers, calls,
              events, silent, rpc_log, rpc_abort>>

grid_vars == <<triple_buffered, complete, writing, drawing, hl_table,
               signal_flush, signal_enter, semaphore, redraws, flush_pc,
               completed, get_pc, tick, ui_abort,
               flushes, published, flush_note, exchanges, call_flushes,
               returned>>

io_vars == <<write_state, read_state, write_suspended, cancelled,
             queue_blocks, packer, write_lock, api, wire, sent, inbox,
             peer_closed, io_log, io_abort, msg_class, mode, results>>

vars == <<handler_table, contexts, freelist, last_index, timers, calls,
          events, silent, rpc_log, rpc_abort,
          triple_buffered, complete, writing, drawing, hl_table,
          signal_flush, signal_enter, semaphore, redraws, flush_pc,
          completed, get_pc, tick, ui_abort,
          flushes, published, flush_note, exchanges, call_flushes,
          returned,
          write_state, read_state, write_suspended, cancelled,
          queue_blocks, packer, write_lock, api, wire, sent, inbox,
          peer_closed, io_log, io_abort, msg_class, mode, results,
          cbuf, cbuf_fifo, cbuf_ops, cbuf_assigns,
          unp, codec_vals, codec_rest, codec_out, codec_ret,
          codec_bytewise, codec_empty,
          cg, cg_prev, cg_event, cg_count, cg_abort,
          ui, ui_prev, ui_events, ui_count>>

\* The components that are tried on their own.
ring_vars == <<cbuf, cbuf_fifo, cbuf_ops, cbuf_assigns>>

codec_vars == <<unp, codec_vals, codec_rest, codec_out, codec_ret,
                codec_bytewise, codec_empty>>

cells_vars == <<cg, cg_prev, cg_event, cg_count, cg_abort>>

redraw_vars == <<ui, ui_prev, ui_events, ui_count>>

lab_vars == <<ring_vars, codec_vars, cells_vars, redraw_vars>>

(***************************************************************************)
(* response_handler_table                                                  *)
(***************************************************************************)
CtxIds == 1..Len(contexts)

\* response_handler_table(): handler_table(16), last_index(0)
TableInit ==
    /\ handler_table = [i \in 1..InitTableSize |-> Null]
    /\ contexts = <<>>
    /\ freelist = <<>>
    /\ last_index = 0

\* alloc_context: the context it returns (a new deque element has the id
\* Len(contexts) + 1).
alloc_context_ctx ==
    IF Len(freelist) > 0 THEN freelist[Len(freelist)] ELSE Len(contexts) + 1

\* alloc_context: the free list it leaves.
alloc_context_freelist ==
    IF Len(freelist) > 0 THEN SubSeq(freelist, 1, Len(freelist) - 1)
    ELSE freelist

\* A scan that takes the slot after last_index without testing it.
empty_slot_untested ==
    (last_index + 1) % Len(handler_table)

\* The wrap-around scan of store_context: first the slots after last_index,
\* then the slots before it; table_size when neither holds an empty slot.
empty_slot ==
    LET table_size == Len(handler_table)
        after  == {i \in (last_index + 1)..(table_size - 1) :
                       handler_table[i + 1] = Null}
        before == {i \in 0..(last_index - 1) : handler_table[i + 1] = Null}
        Min(S) == CHOOSE m \in S : \A n \in S : m <= n
    IN  IF after # {} THEN Min(after)
        ELSE IF before # {} THEN Min(before)
        ELSE table_size

\* store_context: the table after mapping ctx to the slot found.
store_context_table(ctx) ==
    LET table_size == Len(handler_table)
        slot == empty_slot
        grown == IF slot = table_size
                 THEN handler_table \o [i \in 1..table_size |-> Null]
                 ELSE handler_table
    IN  [grown EXCEPT ![slot + 1] = ctx]

\* has_handler without the test of the slot.
has_handler_range_only(msgid) ==
    msgid < Len(handler_table)

\* has_handler(msgid)
has_handler(msgid) ==
    /\ msgid < Len(handler_table)
    /\ handler_table[msgid + 1] # Null

NewContext(timeout) ==
    [handler |-> TRUE, complete |-> FALSE, timed_out |-> FALSE,
     has_timeout |-> timeout]

\* The context record written by store_handler into context ctx.
SetContext(ctx, rec) ==
    IF ctx = Len(contexts) + 1 THEN Append(contexts, rec)
    ELSE [contexts EXCEPT ![ctx] = rec]

\* Blocks still pending on a context when it is handed out again belong
\* to an earlier registration.
StaleTimers(ctx) ==
    {[ctx |-> t.ctx, stale |-> (t.stale \/ t.ctx = ctx)] : t \in timers}

ResetHistory(ctx, isSilent) ==
    /\ calls' = [c \in 1..Len(contexts') |->
                    IF c = ctx \/ c > Len(contexts) THEN <<>> ELSE calls[c]]
    /\ events' = [c \in 1..Len(contexts') |->
                    IF c = ctx \/ c > Len(contexts) THEN <<>> ELSE events[c]]
    /\ silent' = IF isSilent THEN silent \cup {ctx} ELSE silent \ {ctx}

\* The bounds leave room for one more context and for the slot it gets.
CanStore ==
    /\ Len(freelist) > 0 \/ Len(contexts) < MaxContexts
    /\ empty_slot < Len(handler_table)
          \/ 2 * Len(handler_table) <= MaxTableSize

\* process::store_handler(response_handler&&): what it does to the table.
store_handler(isSilent) ==
    /\ CanStore
    /\ LET ctx == alloc_context_ctx IN
        /\ freelist' = alloc_context_freelist
        /\ contexts' = SetContext(ctx, NewContext(FALSE))
        /\ last_index' = empty_slot
        /\ handler_table' = store_context_table(ctx)
        /\ timers' = StaleTimers(ctx)
        /\ ResetHistory(ctx, isSilent)
    /\ UNCHANGED <<rpc_log, rpc_abort>>

\* process::store_handler(response_handler&&)
StoreHandler(isSilent) ==
    /\ UNCHANGED lab_vars
    /\ ~rpc_abort
    /\ UNCHANGED grid_vars
    /\ UNCHANGED io_vars
    /\ store_handler(isSilent)

\* process::store_handler(dispatch_time_t, response_handler&&): what it
\* does to the table and the timers.
store_handler_timeout(isSilent) ==
    /\ CanStore
    /\ LET ctx == alloc_context_ctx IN
        /\ freelist' = alloc_context_freelist
        /\ contexts' = SetContext(ctx, NewContext(TRUE))
        /\ timers' = StaleTimers(ctx) \cup {[ctx |-> ctx, stale |-> FALSE]}
        /\ last_index' = empty_slot
        /\ handler_table' = store_context_table(ctx)
        /\ ResetHistory(ctx, isSilent)
    /\ UNCHANGED <<rpc_log, rpc_abort>>

\* process::store_handler(dispatch_time_t, response_handler&&)
StoreHandlerTimeout(isSilent) ==
    /\ UNCHANGED lab_vars
    /\ ~rpc_abort
    /\ UNCHANGED grid_vars
    /\ UNCHANGED io_vars
    /\ store_handler_timeout(isSilent)

\* Invoking context->handler(error, result, timed_out): an empty
\* std::function throws std::bad_function_call, which nothing catches.
InvokeHandler(ctx, timed_out) ==
    /\ calls' = [calls EXCEPT ![ctx] = Append(@, timed_out)]
    /\ rpc_abort' = (rpc_abort \/ ~contexts[ctx].handler)

\* A timeout block that frees the context whether or not it completed.
request_completed_always(ctx) == TRUE

\* The test of the timeout block: the request has completed.
request_completed(ctx) == contexts[ctx].complete

\* A response handler that does not look at timed_out.
response_too_late_never(ctx) == FALSE

\* The test of on_rpc_response: the response came too late.
response_too_late(ctx) == contexts[ctx].timed_out

\* A response handler that frees every context at once.
timeout_block_coming_never(ctx) == FALSE

\* The test of on_rpc_response: a dispatch_after block is still coming.
timeout_block_coming(ctx) == contexts[ctx].has_timeout

\* A timeout block that calls the handler as a response would.
timeout_flag_false == FALSE

\* The timeout block: the timed_out argument of
\* "context->handler(msg::object(), msg::object(), true)".
timeout_flag == TRUE

\* The block store_handler hands to dispatch_after_f: what it does to the
\* table.
timeout_block(t) ==
    /\ t \in timers
    /\ timers' = timers \ {t}
    /\ events' = [events EXCEPT ![t.ctx] =
                      IF t.stale THEN @ ELSE Append(@, "timer")]
    /\ IF request_completed(t.ctx)
       THEN /\ freelist' = Append(freelist, t.ctx)
            /\ UNCHANGED <<contexts, calls, rpc_abort>>
       ELSE /\ InvokeHandler(t.ctx, timeout_flag)
            /\ contexts' = [contexts EXCEPT ![t.ctx].timed_out = TRUE,
                                            ![t.ctx].handler = FALSE]
            /\ UNCHANGED freelist
    /\ UNCHANGED <<handler_table, last_index, silent, rpc_log>>

\* The block store_handler hands to dispatch_after_f.
TimerFire(t) ==
    /\ UNCHANGED lab_vars
    /\ ~rpc_abort
    /\ UNCHANGED grid_vars
    /\ UNCHANGED io_vars
    /\ timeout_block(t)

\* process::on_rpc_response: what it does to the table.
on_rpc_response(msgid) ==
    /\ IF msgid = null_msgid
       THEN UNCHANGED rpc_vars
       ELSE IF ~has_handler(msgid)
       THEN /\ rpc_log' = "No response handler"
            /\ UNCHANGED <<handler_table, contexts, freelist, last_index,
                           timers, calls, events, silent, rpc_abort>>
       ELSE LET context == handler_table[msgid + 1] IN
            IF context = Null
            THEN \* get() returned nullptr and context->timed_out is read
                 \* through it: the process dies on the access.
                 /\ rpc_abort' = TRUE
                 /\ UNCHANGED <<handler_table, contexts, freelist, last_index,
                                timers, calls, events, silent, rpc_log>>
            ELSE
            /\ context \notin silent
            /\ handler_table' = [handler_table EXCEPT ![msgid + 1] = Null]
            /\ events' = [events EXCEPT ![context] = Append(@, "reply")]
            /\ IF response_too_late(context)
               THEN /\ freelist' = Append(freelist, context)
                    /\ UNCHANGED <<contexts, calls, rpc_abort>>
               ELSE /\ InvokeHandler(context, FALSE)
                    /\ IF timeout_block_coming(context)
                       THEN /\ contexts' = [contexts EXCEPT
                                               ![context].handler = FALSE,
                                               ![context].complete = TRUE]
                            /\ UNCHANGED freelist
                       ELSE /\ contexts' = [contexts EXCEPT
                                               ![context].handler = FALSE]
                            /\ freelist' = Append(freelist, context)
            /\ UNCHANGED <<last_index, timers, silent, rpc_log>>

\* process::on_rpc_response
OnRpcResponse(msgid) ==
    /\ UNCHANGED lab_vars
    /\ ~rpc_abort
    /\ UNCHANGED grid_vars
    /\ UNCHANGED io_vars
    /\ on_rpc_response(msgid)

\* The message ids a response may carry: every slot, one id past the
\* table, and null_msgid.
MsgIds == 0..Len(handler_table) \cup {null_msgid}

(***************************************************************************)
(* ui_controller: grids                                                    *)
(***************************************************************************)
\* sizeof(grapheme_cluster)
GraphemeSize == 24

\* A value initialized cell_attributes.
ZeroAttrs == [background |-> 0, foreground |-> 0, special |-> 0, flags |-> {}]

\* cell(): text{}, size{}, attrs{}
ZeroCell == [text |-> <<>>, size |-> 0, attrs |-> ZeroAttrs]

\* update.hlattr is a pointer: <<>> is nullptr, <<a>> points to the entry a.
NullAttrs == <<>>

\* An optional element of a cell update is <<>> when absent, <<v>> when v.
NoArg == <<>>

\* cell(msg::string, const cell_attributes*): a single space is stored as
\* an empty cell, longer text is trimmed to the grapheme cluster.
MakeCell(cell_text, cell_attrs) ==
    IF cell_text = <<32>>
    THEN [text |-> <<>>, size |-> 0, attrs |-> cell_attrs]
    ELSE LET size == IF Len(cell_text) < GraphemeSize THEN Len(cell_text)
                     ELSE GraphemeSize
         IN  [text |-> SubSeq(cell_text, 1, size), size |-> size,
              attrs |-> cell_attrs]

\* hl_get_entry
hl_get_entry(table, hlid) ==
    IF hlid >= 0 /\ hlid < Len(table) THEN table[hlid + 1] ELSE table[1]

\* grid(): grid_width(0), grid_height(0), draw_tick(0); the cursor position
\* is left without a value.
NewGrid(row, col) ==
    [cells |-> <<>>, grid_width |-> 0, grid_height |-> 0,
     cursor_row |-> row, cursor_col |-> col, draw_tick |-> 0]

\* The values an uninitialized cursor_row or cursor_col may hold.
Indeterminate == {0, 1}

\* A resize that builds every cell anew.
ResizeCellsAnew(cells, n) == [i \in 1..n |-> ZeroCell]

\* std::vector<cell>::resize
ResizeCells(cells, n) ==
    [i \in 1..n |-> IF i <= Len(cells) THEN cells[i] ELSE ZeroCell]

\* ui_controller::grid_resize on a grid
grid_resize(g, width, height) ==
    [g EXCEPT !.grid_width = width, !.grid_height = height,
              !.cells = ResizeCells(g.cells, width * height)]

\* ui_controller::grid_cursor_goto on a grid
grid_cursor_goto(g, row, col) ==
    IF row >= g.grid_height \/ col >= g.grid_width THEN g
    ELSE [g EXCEPT !.cursor_row = row, !.cursor_col = col]

\* remaining after "remaining -= n": a size_t below zero wraps to a value
\* no repeat count of the model exceeds.
SizeWrapped == 1000000
SizeSub(a, b) == IF a >= b THEN a - b ELSE SizeWrapped

\* One iteration of the loop of grid_line. st holds the cells, the index of
\* *cell, remaining, update.hlattr, whether the function has returned and
\* whether it touched memory it must not touch.
grid_line_update(st, rowbegin, object, table) ==
    IF st.done THEN st
    ELSE IF ~object.well_typed THEN [st EXCEPT !.done = TRUE]
    ELSE
    LET hlattr == IF object.hl = NoArg THEN st.hlattr
                  ELSE <<hl_get_entry(table, object.hl[1])>>
        repeat == IF object.repeat = NoArg THEN 1
                  ELSE IF object.repeat[1] < 0 THEN SizeWrapped
                  ELSE object.repeat[1]
        s1 == [st EXCEPT !.hlattr = hlattr]
        ncells == Len(st.cells)
    IN  IF repeat > st.remaining THEN [s1 EXCEPT !.done = TRUE]
        ELSE IF Len(object.text) = 0
        THEN IF st.cell = rowbegin THEN [s1 EXCEPT !.done = TRUE]
             ELSE IF st.cell >= ncells
             THEN [s1 EXCEPT !.done = TRUE, !.fault = TRUE]
             ELSE LET left == [st.cells[st.cell] EXCEPT
                                  !.attrs.flags = @ \cup {"doublewidth"}]
                      right == [st.cells[st.cell + 1] EXCEPT
                                  !.attrs = left.attrs, !.size = 0]
                  IN  [s1 EXCEPT
                          !.cells = [st.cells EXCEPT ![st.cell] = left,
                                                     ![st.cell + 1] = right],
                          !.cell = st.cell + 1,
                          !.remaining = SizeSub(st.remaining, 1)]
        ELSE IF repeat > 0
        THEN IF hlattr = NullAttrs \/ st.cell + repeat > ncells
             THEN [s1 EXCEPT !.done = TRUE, !.fault = TRUE]
             ELSE LET updated == MakeCell(object.text, hlattr[1]) IN
                  [s1 EXCEPT
                     !.cells = [i \in 1..ncells |->
                                  IF i > st.cell /\ i <= st.cell + repeat
                                  THEN updated ELSE st.cells[i]],
                     !.cell = st.cell + repeat,
                     !.remaining = SizeSub(st.remaining, repeat)]
        ELSE s1

RECURSIVE grid_line_loop(_, _, _, _)
grid_line_loop(st, rowbegin, cells, table) ==
    IF cells = <<>> THEN st
    ELSE grid_line_loop(grid_line_update(st, rowbegin, Head(cells), table),
                        rowbegin, Tail(cells), table)

\* ui_controller::grid_line on a grid: the grid it leaves and whether the
\* call touched memory it must not touch.
grid_line(g, row, col, cells, table) ==
    IF row >= g.grid_height \/ col >= g.grid_width
    THEN [grid |-> g, fault |-> FALSE]
    ELSE LET rowbegin == row * g.grid_width
             st0 == [cells |-> g.cells, cell |-> rowbegin + col,
                     remaining |-> g.grid_width - col, hlattr |-> NullAttrs,
                     done |-> FALSE, fault |-> FALSE]
             st == grid_line_loop(st0, rowbegin, cells, table)
         IN  [grid |-> [g EXCEPT !.cells = st.cells], fault |-> st.fault]

(***************************************************************************)
(* ui_controller: triple buffering                                         *)
(***************************************************************************)
\* The grid ids redraw events carry: 1 is the global grid.
GridIds == {1, 2}
\* The sizes grid_resize events carry.
GridSizes == {<<1, 1>>}
\* The positions grid_line and grid_cursor_goto events carry.
GridRows == {0, 1}
GridCols == {0, 1}
\* The cell arrays grid_line events carry.
CellUpdate(text, hl, repeat) ==
    [well_typed |-> TRUE, text |-> text, hl |-> hl, repeat |-> repeat]
LineCells == { << CellUpdate(<<97>>, <<0>>, NoArg) >>,
               << CellUpdate(<<98>>, <<0>>, <<2>>) >> }

\* ui_controller(): hl_table(1), no waiter, complete, writing and drawing
\* are the three grids.
UiInit(grids) ==
    /\ triple_buffered = grids
    /\ complete = 0
    /\ writing = 1
    /\ drawing = 2
    /\ hl_table = <<ZeroAttrs>>
    /\ signal_flush = FALSE
    /\ signal_enter = FALSE
    /\ semaphore = 0
    /\ redraws = 0
    /\ flush_pc = "idle"
    /\ completed = 1
    /\ get_pc = "idle"
    /\ tick = 0
    /\ ui_abort = FALSE
    /\ flushes = 0
    /\ published = <<>>
    /\ flush_note = "none"
    /\ exchanges = 0
    /\ call_flushes = 0
    /\ returned = [prev |-> 0, tick |-> 0, after |-> 0, exchanges |-> 0,
                   count |-> 0]

GridInit ==
    \E r, c \in [0..2 -> Indeterminate] :
        UiInit([i \in 0..2 |-> NewGrid(r[i], c[i])])

history_vars == <<flushes, published, flush_note, redraws, exchanges,
                  call_flushes, returned>>

\* ui_controller::get_grid: any grid but the global one ends the process.
get_grid_aborts(index) == index # 1

\* A redraw event that writes to the writing grid, applied by op.
WriteEvent(grid_id, result) ==
    /\ UNCHANGED lab_vars
    /\ ~ui_abort
    /\ UNCHANGED rpc_vars
    /\ UNCHANGED io_vars
    /\ flush_pc = "idle"
    /\ IF get_grid_aborts(grid_id) \/ result.fault
       THEN /\ ui_abort' = TRUE
            /\ UNCHANGED triple_buffered
       ELSE /\ triple_buffered' =
                  [triple_buffered EXCEPT ![writing] = result.grid]
            /\ UNCHANGED ui_abort
    /\ UNCHANGED <<complete, writing, drawing, hl_table, signal_flush,
                   signal_enter, semaphore, flush_pc, completed, get_pc,
                   tick>>
    /\ UNCHANGED history_vars

\* ui_controller::grid_resize
GridResize(grid_id, width, height) ==
    WriteEvent(grid_id,
        [grid |-> grid_resize(triple_buffered[writing], width, height),
         fault |-> FALSE])

\* ui_controller::grid_cursor_goto
GridCursorGoto(grid_id, row, col) ==
    WriteEvent(grid_id,
        [grid |-> grid_cursor_goto(triple_buffered[writing], row, col),
         fault |-> FALSE])

\* ui_controller::grid_line
GridLine(grid_id, row, col, cells) ==
    WriteEvent(grid_id,
        grid_line(triple_buffered[writing], row, col, cells, hl_table))

\* A flush that stores completed and keeps writing to the same grid.
flush_store_result == writing

\* flush(): the pointer "complete.exchange(completed)" returns.
flush_exchange_result == complete

\* A copy that leaves the draw tick of the destination alone.
flush_copy_keep_tick(dst, src) == [src EXCEPT !.draw_tick = dst.draw_tick]

\* flush(): "*writing = *completed".
flush_copy(dst, src) == src

\* A flush that forgets to count.
next_draw_tick_same(t) == t

\* flush(): "completed->draw_tick += 1".
next_draw_tick(t) == t + 1

\* flush(): completed = writing; completed->draw_tick += 1
FlushBegin ==
    /\ UNCHANGED lab_vars
    /\ ~ui_abort
    /\ UNCHANGED rpc_vars
    /\ UNCHANGED io_vars
    /\ flush_pc = "idle"
    /\ flushes < MaxFlush
    /\ completed' = writing
    /\ triple_buffered' =
          [triple_buffered EXCEPT ![writing].draw_tick = next_draw_tick(@)]
    /\ flush_pc' = "exchange"
    /\ UNCHANGED <<complete, writing, drawing, hl_table, signal_flush,
                   signal_enter, semaphore, get_pc, tick, ui_abort>>
    /\ UNCHANGED history_vars

\* flush(): writing = complete.exchange(completed)
FlushExchange ==
    /\ UNCHANGED lab_vars
    /\ ~ui_abort
    /\ UNCHANGED rpc_vars
    /\ UNCHANGED io_vars
    /\ flush_pc = "exchange"
    /\ writing' = flush_exchange_result
    /\ complete' = completed
    /\ published' = Append(published, triple_buffered[completed].draw_tick)
    /\ flush_pc' = "copy"
    /\ UNCHANGED <<triple_buffered, drawing, hl_table, signal_flush,
                   signal_enter, semaphore, completed, get_pc, tick,
                   ui_abort>>
    /\ UNCHANGED <<flushes, flush_note, redraws, exchanges, call_flushes,
                   returned>>

\* A flush that never looks for a waiter.
flush_has_waiter_never == FALSE

\* flush(): "if (signal_flush)".
flush_has_waiter == signal_flush

\* flush(): *writing = *completed, then the waiter or the window is told.
FlushCopy ==
    /\ UNCHANGED lab_vars
    /\ ~ui_abort
    /\ UNCHANGED rpc_vars
    /\ UNCHANGED io_vars
    /\ flush_pc = "copy"
    /\ triple_buffered' =
          [triple_buffered EXCEPT
              ![writing] = flush_copy(triple_buffered[writing],
                                      triple_buffered[completed])]
    /\ IF flush_has_waiter
       THEN /\ flush_note' = "signal"
            /\ semaphore' = semaphore + 1
            /\ signal_flush' = FALSE
            /\ UNCHANGED redraws
       ELSE /\ flush_note' = "redraw"
            /\ redraws' = redraws + 1
            /\ UNCHANGED <<signal_flush, semaphore>>
    /\ flush_pc' = "idle"
    /\ flushes' = flushes + 1
    /\ UNCHANGED <<complete, writing, drawing, hl_table, signal_enter,
                   completed, get_pc, tick, ui_abort>>
    /\ UNCHANGED <<published, exchanges, call_flushes, returned>>

\* A get_global_grid that returns whatever the first exchange hands it.
grid_is_current_always(draw_tick, seen) == TRUE

\* A get_global_grid that waits for a grid newer than the one it held.
grid_is_current_strict(draw_tick, seen) == draw_tick > seen

\* get_global_grid(): the test that ends the loop.
grid_is_current(draw_tick, seen) == draw_tick >= seen

\* get_global_grid(): tick = drawing->draw_tick
GetBegin ==
    /\ UNCHANGED lab_vars
    /\ ~ui_abort
    /\ UNCHANGED rpc_vars
    /\ UNCHANGED io_vars
    /\ get_pc = "idle"
    /\ tick' = triple_buffered[drawing].draw_tick
    /\ get_pc' = "exchange"
    /\ exchanges' = 0
    /\ call_flushes' = flushes
    /\ UNCHANGED <<triple_buffered, complete, writing, drawing, hl_table,
                   signal_flush, signal_enter, semaphore, flush_pc,
                   completed, ui_abort>>
    /\ UNCHANGED <<flushes, published, flush_note, redraws, returned>>

\* get_global_grid(): drawing = complete.exchange(drawing)
GetExchange ==
    /\ UNCHANGED lab_vars
    /\ ~ui_abort
    /\ UNCHANGED rpc_vars
    /\ UNCHANGED io_vars
    /\ get_pc = "exchange"
    /\ drawing' = complete
    /\ complete' = drawing
    /\ exchanges' = exchanges + 1
    /\ get_pc' = "check"
    /\ UNCHANGED <<triple_buffered, writing, hl_table, signal_flush,
                   signal_enter, semaphore, flush_pc, completed, tick,
                   ui_abort>>
    /\ UNCHANGED <<flushes, published, flush_note, redraws, call_flushes,
                   returned>>

\* get_global_grid(): if (drawing->draw_tick >= tick) return drawing
GetCheck ==
    /\ UNCHANGED lab_vars
    /\ ~ui_abort
    /\ UNCHANGED rpc_vars
    /\ UNCHANGED io_vars
    /\ get_pc = "check"
    /\ IF grid_is_current(triple_buffered[drawing].draw_tick, tick)
       THEN /\ get_pc' = "idle"
            /\ returned' = [prev |-> returned.tick,
                            tick |-> triple_buffered[drawing].draw_tick,
                            after |-> call_flushes,
                            exchanges |-> exchanges,
                            count |-> IF returned.count < 2
                                      THEN returned.count + 1 ELSE 2]
       ELSE /\ get_pc' = "exchange"
            /\ UNCHANGED returned
    /\ UNCHANGED <<triple_buffered, complete, writing, drawing, hl_table,
                   signal_flush, signal_enter, semaphore, flush_pc,
                   completed, tick, ui_abort>>
    /\ UNCHANGED <<flushes, published, flush_note, redraws, exchanges,
                   call_flushes>>

GridNext ==
    \/ \E id \in GridIds, size \in GridSizes :
          GridResize(id, size[1], size[2])
    \/ \E id \in GridIds, row \in GridRows, col \in GridCols :
          GridCursorGoto(id, row, col)
    \/ \E id \in GridIds, row \in GridRows, col \in GridCols,
          cells \in LineCells : GridLine(id, row, col, cells)
    \/ FlushBegin
    \/ FlushExchange
    \/ FlushCopy
    \/ GetBegin
    \/ GetExchange
    \/ GetCheck

(***************************************************************************)
(* process: the I/O loop                                                   *)
(***************************************************************************)
\* The threads that call the API; thread 1 is the main thread.
Threads == 1..MaxThreads

\* A 64 bit integer is its object representation: the 8 bytes of
\* msg::integer::storage in memory order, least significant first (the
\* targets are little-endian).
uint64_t(val) ==
    IF val = null_msgid THEN <<255, 255, 255, 255, 0, 0, 0, 0>>
    ELSE <<val % 256, (val \div 256) % 256, (val \div 65536) % 256,
           val \div 16777216, 0, 0, 0, 0>>

\* int64_t of a negative number -n: the two's complement of n.
int64_neg(n) == [i \in 1..8 |-> 255 - uint64_t(n - 1)[i]]

\* a < b for unsigned integers of the same width: decided by the most
\* significant byte in which they differ.
unsigned_less(a, b) ==
    \E i \in 1..Len(a) :
        /\ a[i] < b[i]
        /\ \A j \in (i + 1)..Len(a) : a[j] = b[j]

\* a < b for int64_t: the unsigned order with the sign bit inverted.
signed_less(a, b) ==
    LET flip(x) == [x EXCEPT ![8] = (x[8] + 128) % 256] IN
    unsigned_less(flip(a), flip(b))

numeric_limits_max_signed(size) ==
    [i \in 1..8 |-> IF i < size THEN 255 ELSE IF i = size THEN 127 ELSE 0]
\* std::numeric_limits<T>::max() of the unsigned T of size bytes, and
\* min() of the signed T, as 64 bit values.
numeric_limits_max(size) == [i \in 1..8 |-> IF i <= size THEN 255 ELSE 0]
numeric_limits_min(size) ==
    [i \in 1..8 |-> IF i < size THEN 0 ELSE IF i = size THEN 128 ELSE 255]

\* detail::byteswap
byteswap(val) == [i \in 1..Len(val) |-> val[Len(val) + 1 - i]]

\* static_cast<PackType>(val) to an integer type of size bytes: the low
\* order bytes are kept.
static_cast(val, size) == SubSeq(val, 1, size)

\* packer::first_byte for the unsigned and the signed integer types.
first_byte(signed, size) ==
    LET offsets == [i \in {1, 2, 4, 8} |->
                       CASE i = 1 -> 0 [] i = 2 -> 1 [] i = 4 -> 2
                         [] i = 8 -> 3]
    IN  IF signed THEN 208 + offsets[size] ELSE 204 + offsets[size]

\* msg::packer::pack_numeric_impl
pack_numeric_impl(size, FirstByte, val) ==
    <<FirstByte>> \o byteswap(static_cast(val, size))

\* msg::packer::pack_numeric
pack_numeric(size, signed, val) ==
    pack_numeric_impl(size, first_byte(signed, size), val)

\* msg::packer::pack_uint64
pack_uint64(val) ==
    IF unsigned_less(val, uint64_t(128)) THEN static_cast(val, 1)
    ELSE IF ~unsigned_less(numeric_limits_max(1), val)
    THEN pack_numeric(1, FALSE, val)
    ELSE IF ~unsigned_less(numeric_limits_max(2), val)
    THEN pack_numeric(2, FALSE, val)
    ELSE IF ~unsigned_less(numeric_limits_max(4), val)
    THEN pack_numeric(4, FALSE, val)
    ELSE pack_numeric(8, FALSE, val)

\* msg::packer::pack_int64
pack_int64(val) ==
    IF ~signed_less(val, uint64_t(0)) THEN pack_uint64(val)
    ELSE IF ~signed_less(val, int64_neg(32)) THEN static_cast(val, 1)
    ELSE IF ~signed_less(val, numeric_limits_min(1))
    THEN pack_numeric(1, TRUE, val)
    ELSE IF ~signed_less(val, numeric_limits_min(2))
    THEN pack_numeric(2, TRUE, val)
    ELSE IF ~signed_less(val, numeric_limits_min(4))
    THEN pack_numeric(4, TRUE, val)
    ELSE pack_numeric(8, TRUE, val)

\* msg::packer::pack_bool
pack_bool(val) == <<194 + (IF val THEN 1 ELSE 0)>>

\* msg::packer::pack_string, for strings shorter than 2^16 bytes.
pack_string(val) ==
    LET size == Len(val) IN
    IF size <= 31 THEN <<160 + size>> \o val
    ELSE IF size <= 255 THEN <<217, size>> \o val
    ELSE <<218, size \div 256, size % 256>> \o val

\* msg::packer::start_array, for arrays shorter than 2^16 elements.
start_array(len) ==
    IF len <= 15 THEN <<144 + len>>
    ELSE <<220, len \div 256, len % 256>>

RECURSIVE pack_args(_)
\* "(packer.pack(args), ...)" for unsigned arguments
pack_args(args) ==
    IF args = <<>> THEN <<>>
    ELSE pack_uint64(uint64_t(Head(args))) \o pack_args(Tail(args))

\* The bytes rpc_request appends to the packer.
rpc_request_bytes(msgid, method, args) ==
    start_array(4) \o pack_uint64(uint64_t(0))
        \o pack_uint64(uint64_t(msgid))
        \o pack_string(method) \o start_array(Len(args)) \o pack_args(args)

\* The method names and argument lists requests carry: short strings stand
\* for the API names ("i" without arguments, "ev" with one).
Requests == {[method |-> <<105>>, args |-> <<>>],
             [method |-> <<101, 118>>, args |-> <<7>>]}

\* A thread that is not inside an API call.
ApiIdle == [pc |-> "idle", msgid |-> null_msgid, seen |-> "none",
            call |-> "none"]

\* process::io_init
IoInit ==
    /\ write_state = "suspended"
    /\ read_state = "resumed"
    /\ write_suspended = 1
    /\ cancelled = {}
    /\ queue_blocks = {}
    /\ packer = <<>>
    /\ write_lock = 0
    /\ api = [t \in Threads |-> ApiIdle]
    /\ wire = <<>>
    /\ sent = <<>>
    /\ inbox = <<>>
    /\ peer_closed = FALSE
    /\ io_log = <<>>
    /\ io_abort = "none"
    /\ msg_class = "none"
    /\ mode = "unset"
    /\ results = <<>>

\* Nothing has terminated the process.
Running == io_abort = "none" /\ ~rpc_abort /\ ~ui_abort

\* The serial queue runs one handler at a time: no handler starts while
\* io_can_read still handles the objects it unpacked or flush() is running.
QueueIdle == inbox = <<>> /\ flush_pc = "idle"

\* The number of rpc_request calls made or about to be made.
RequestCount ==
    Len(sent) + Cardinality({t \in Threads : api[t].pc = "pack"})

\* process::input: a request without a handler.
Input(t) ==
    /\ UNCHANGED lab_vars
    /\ Running
    /\ UNCHANGED grid_vars
    /\ UNCHANGED rpc_vars
    /\ api[t].pc = "idle"
    /\ RequestCount < MaxRequests
    /\ api' = [api EXCEPT ![t] = [pc |-> "pack", msgid |-> null_msgid,
                                  seen |-> "none", call |-> "async"]]
    /\ UNCHANGED <<write_state, read_state, write_suspended, cancelled,
                   queue_blocks, packer, write_lock, wire, sent, inbox,
                   peer_closed, io_log, io_abort, msg_class, mode, results>>

\* process::command(command, handler): store_handler, then rpc_request.
Command(t) ==
    /\ UNCHANGED lab_vars
    /\ Running
    /\ UNCHANGED grid_vars
    /\ api[t].pc = "idle"
    /\ RequestCount < MaxRequests
    /\ store_handler(FALSE)
    /\ api' = [api EXCEPT ![t] = [pc |-> "pack", msgid |-> last_index',
                                  seen |-> "none", call |-> "async"]]
    /\ UNCHANGED <<write_state, read_state, write_suspended, cancelled,
                   queue_blocks, packer, write_lock, wire, sent, inbox,
                   peer_closed, io_log, io_abort, msg_class, mode, results>>

\* process::eval(expr, timeout, handler): store_handler, then rpc_request.
Eval(t) ==
    /\ UNCHANGED lab_vars
    /\ Running
    /\ UNCHANGED grid_vars
    /\ api[t].pc = "idle"
    /\ RequestCount < MaxRequests
    /\ store_handler_timeout(FALSE)
    /\ api' = [api EXCEPT ![t] = [pc |-> "pack", msgid |-> last_index',
                                  seen |-> "none", call |-> "async"]]
    /\ UNCHANGED <<write_state, read_state, write_suspended, cancelled,
                   queue_blocks, packer, write_lock, wire, sent, inbox,
                   peer_closed, io_log, io_abort, msg_class, mode, results>>

\* rpc_request, first part: take write_lock, pack the envelope, read
\* write_state.
RpcRequestPack(t, method, args) ==
    /\ UNCHANGED lab_vars
    /\ Running
    /\ UNCHANGED grid_vars
    /\ UNCHANGED rpc_vars
    /\ api[t].pc = "pack"
    /\ write_lock = 0
    /\ write_lock' = t
    /\ packer' = packer \o rpc_request_bytes(api[t].msgid, method, args)
    /\ sent' = Append(sent, [msgid |-> api[t].msgid, method |-> method,
                             args |-> args])
    /\ api' = [api EXCEPT ![t].pc = "resume", ![t].seen = write_state]
    /\ UNCHANGED <<write_state, read_state, write_suspended, cancelled,
                   queue_blocks, wire, inbox, peer_closed, io_log, io_abort,
                   msg_class, mode, results>>

\* A request that resumes the write source whatever state it found.
found_suspended_always(seen) == TRUE

\* rpc_request: "if (write_state == dispatch_source_state::suspended)"
found_suspended(seen) == seen = "suspended"

\* Where a thread continues after rpc_request returns.
AfterRequest(call) ==
    CASE call = "get_mode" -> "mode_wait"
      [] call = "ui_attach" -> "attach_wait"
      [] call = "ui_attach_wait_command" -> "pack"
      [] call = "ui_attach_wait" -> "timed_wait"
      [] OTHER -> "idle"

\* The thread record after rpc_request returns.
ApiAfterRequest(rec) ==
    IF AfterRequest(rec.call) = "idle" THEN ApiIdle
    ELSE IF rec.call = "ui_attach_wait_command"
    THEN [pc |-> "pack", msgid |-> null_msgid, seen |-> "none",
          call |-> "ui_attach_wait"]
    ELSE [pc |-> AfterRequest(rec.call), msgid |-> rec.msgid,
          seen |-> "none", call |-> rec.call]

\* rpc_request, second part: resume the write source if it was found
\* suspended, release write_lock. libdispatch ends the process when a
\* source that is not suspended is resumed.
RpcRequestResume(t) ==
    /\ UNCHANGED lab_vars
    /\ Running
    /\ UNCHANGED grid_vars
    /\ UNCHANGED rpc_vars
    /\ api[t].pc = "resume"
    /\ IF found_suspended(api[t].seen)
       THEN IF write_suspended = 0
            THEN /\ io_abort' = "over_resume"
                 /\ UNCHANGED <<write_suspended, write_state, write_lock,
                                api>>
            ELSE /\ write_suspended' = write_suspended - 1
                 /\ write_state' = "resumed"
                 /\ write_lock' = 0
                 /\ api' = [api EXCEPT ![t] = ApiAfterRequest(api[t])]
                 /\ UNCHANGED io_abort
       ELSE /\ write_lock' = 0
            /\ api' = [api EXCEPT ![t] = ApiAfterRequest(api[t])]
            /\ UNCHANGED <<write_suspended, write_state, io_abort>>
    /\ UNCHANGED <<read_state, cancelled, queue_blocks, packer, wire, sent,
                   inbox, peer_closed, io_log, msg_class, mode, results>>

\* An io_can_write that suspends the source after every write.
drained_always(size) == TRUE

\* io_can_write: "if (!packer.size())"
drained(size) == size = 0

\* A consume that forgets the bytes that were not written.
consume_all(buffer, size) == <<>>

\* circular_buffer::consume: the bytes left in the buffer.
consume(buffer, size) == SubSeq(buffer, size + 1, Len(buffer))

\* The values write() may return for a buffer of the given size.
WriteResults(size) == IF size = 0 THEN {0, -1} ELSE (1..size) \cup {-1}

\* process::io_error
io_error ==
    /\ io_abort' = "io_error"
    /\ io_log' = Append(io_log, "io_error")

\* process::io_can_write, bytes being what write() returned.
IoCanWrite(bytes) ==
    /\ UNCHANGED lab_vars
    /\ Running
    /\ UNCHANGED grid_vars
    /\ UNCHANGED rpc_vars
    /\ QueueIdle
    /\ "write" \notin cancelled
    /\ write_suspended = 0
    /\ write_lock = 0
    /\ bytes \in WriteResults(Len(packer))
    /\ IF bytes = -1
       THEN /\ io_error
            /\ UNCHANGED <<packer, wire, write_suspended, write_state>>
       ELSE /\ wire' = wire \o SubSeq(packer, 1, bytes)
            /\ packer' = consume(packer, bytes)
            /\ IF drained(Len(packer'))
               THEN /\ write_suspended' = write_suspended + 1
                    /\ write_state' = "suspended"
               ELSE UNCHANGED <<write_suspended, write_state>>
            /\ UNCHANGED <<io_abort, io_log>>
    /\ UNCHANGED <<read_state, cancelled, queue_blocks, write_lock, api,
                   sent, inbox, peer_closed, msg_class, mode, results>>

\* An io_cancel that cancels the write source every time it is called.
already_cancelled_never(state) == FALSE

\* io_cancel: the test "write_state != dispatch_source_state::cancelled",
\* negated.
already_cancelled(state) == state = "cancelled"

\* process::io_cancel, after the events log has taken the events that
\* came before it.
io_cancel(log) ==
    IF already_cancelled(write_state)
    THEN /\ io_log' = log
         /\ UNCHANGED <<write_state, write_suspended, cancelled,
                        queue_blocks, io_abort>>
    ELSE IF write_state = "suspended" /\ write_suspended = 0
    THEN /\ io_abort' = "over_resume"
         /\ io_log' = log
         /\ UNCHANGED <<write_state, write_suspended, cancelled,
                        queue_blocks>>
    ELSE /\ write_suspended' = IF write_state = "suspended"
                               THEN write_suspended - 1
                               ELSE write_suspended
         /\ io_log' = Append(log, "cancel_write")
         /\ queue_blocks' = IF "write" \in cancelled THEN queue_blocks
                            ELSE queue_blocks \cup {"write_cancel"}
         /\ cancelled' = cancelled \cup {"write"}
         /\ write_state' = "cancelled"
         /\ UNCHANGED io_abort

\* process::io_can_read when read() returns -1.
IoCanReadError ==
    /\ UNCHANGED lab_vars
    /\ Running
    /\ UNCHANGED grid_vars
    /\ UNCHANGED rpc_vars
    /\ QueueIdle
    /\ "read" \notin cancelled
    /\ ~peer_closed
    /\ io_error
    /\ UNCHANGED <<write_state, read_state, write_suspended, cancelled,
                   queue_blocks, packer, write_lock, api, wire, sent, inbox,
                   peer_closed, msg_class, mode, results>>

\* process::io_can_read when read() returns 0: window.close(), io_cancel().
IoCanReadEof ==
    /\ UNCHANGED lab_vars
    /\ Running
    /\ UNCHANGED grid_vars
    /\ UNCHANGED rpc_vars
    /\ QueueIdle
    /\ "read" \notin cancelled
    /\ Cardinality({i \in 1..Len(io_log) : io_log[i] = "window.close"})
          < MaxEof
    /\ peer_closed' = TRUE
    /\ io_cancel(Append(io_log, "window.close"))
    /\ UNCHANGED <<read_state, packer, write_lock, api, wire, sent, inbox,
                   msg_class, mode, results>>

\* The cancel handler of the write source.
WriteCancelHandler ==
    /\ UNCHANGED lab_vars
    /\ Running
    /\ UNCHANGED grid_vars
    /\ UNCHANGED rpc_vars
    /\ QueueIdle
    /\ "write_cancel" \in queue_blocks
    /\ write_suspended = 0
    /\ queue_blocks' = IF "read" \in cancelled
                       THEN queue_blocks \ {"write_cancel"}
                       ELSE (queue_blocks \ {"write_cancel"})
                                \cup {"read_cancel"}
    /\ cancelled' = cancelled \cup {"read"}
    /\ read_state' = "cancelled"
    /\ io_log' = Append(io_log, "cancel_read")
    /\ UNCHANGED <<write_state, write_suspended, packer, write_lock, api,
                   wire, sent, inbox, peer_closed, io_abort, msg_class,
                   mode, results>>

\* ui_controller::signal: the waiter it signals, if any.
signal_target ==
    IF signal_enter THEN "enter" ELSE IF signal_flush THEN "flush"
    ELSE "none"

\* ui_controller::signal
signal ==
    /\ semaphore' = IF signal_target = "none" THEN semaphore
                    ELSE semaphore + 1
    /\ signal_enter' = IF signal_target = "enter" THEN FALSE
                       ELSE signal_enter
    /\ signal_flush' = IF signal_target = "flush" THEN FALSE
                       ELSE signal_flush

\* The variables of the UI that signal() and vimenter() leave alone.
ui_rest == <<triple_buffered, complete, writing, drawing, hl_table, redraws,
             flush_pc, completed, get_pc, tick, ui_abort, flushes,
             published, flush_note, exchanges, call_flushes, returned>>

\* The cancel handler of the read source: ui.shutdown(), which is signal()
\* and window.shutdown().
ReadCancelHandler ==
    /\ UNCHANGED lab_vars
    /\ Running
    /\ UNCHANGED rpc_vars
    /\ QueueIdle
    /\ "read_cancel" \in queue_blocks
    /\ queue_blocks' = queue_blocks \ {"read_cancel"}
    /\ signal
    /\ io_log' = Append(io_log, "window.shutdown")
    /\ UNCHANGED ui_rest
    /\ UNCHANGED <<write_state, read_state, write_suspended, cancelled,
                   packer, write_lock, api, wire, sent, inbox, peer_closed,
                   io_abort, msg_class, mode, results>>

\* ui_controller::vimenter
vimenter ==
    /\ signal_flush' = IF signal_enter THEN TRUE ELSE signal_flush
    /\ signal_enter' = FALSE
    /\ UNCHANGED semaphore

\* msg::object values: every object has the four fields, the ones that do
\* not belong to its type are empty.
IntObj(n) == [type |-> "integer", int |-> n, str |-> "", items |-> <<>>]
StrObj(s) == [type |-> "string", int |-> 0, str |-> s, items |-> <<>>]
ArrObj(a) == [type |-> "array", int |-> 0, str |-> "", items |-> a]
NilObj == [type |-> "null", int |-> 0, str |-> "", items |-> <<>>]

\* is_notification
is_notification(array) ==
    /\ Len(array) = 3
    /\ array[1].type = "integer"
    /\ array[2].type = "string"
    /\ array[3].type = "array"
    /\ array[1].int = 2

\* A test that takes every array that starts with the tag 1.
is_response_tag_only(array) ==
    /\ Len(array) >= 1
    /\ array[1].type = "integer"
    /\ array[1].int = 1

\* is_response
is_response(array) ==
    /\ Len(array) = 4
    /\ array[1].type = "integer"
    /\ array[2].type = "integer"
    /\ array[1].int = 1

\* process::on_rpc_notification: "redraw" goes to ui.redraw (here with no
\* events in it), "vimenter" to ui.vimenter, the rest is logged.
on_rpc_notification(array) ==
    LET name == array[2].str IN
    IF name = "redraw"
    THEN /\ array[3].items = <<>>
         /\ UNCHANGED <<signal_flush, signal_enter, semaphore, rpc_log>>
    ELSE IF name = "vimenter"
    THEN /\ vimenter
         /\ UNCHANGED rpc_log
    ELSE /\ rpc_log' = "Unhandled notification"
         /\ UNCHANGED <<signal_flush, signal_enter, semaphore>>

\* The message id on_rpc_response reads from a response: array[1] as a
\* size_t. An object that is no integer never gets here.
response_msgid(array) ==
    IF Len(array) >= 2 /\ array[2].type = "integer" THEN array[2].int
    ELSE null_msgid

\* process::on_rpc_message for the first object io_can_read unpacked.
OnRpcMessage ==
    /\ UNCHANGED lab_vars
    /\ Running
    /\ inbox # <<>>
    /\ inbox' = Tail(inbox)
    /\ LET obj == Head(inbox) IN
       IF obj.type = "array" /\ is_notification(obj.items)
       THEN /\ msg_class' = "notification"
            /\ on_rpc_notification(obj.items)
            /\ UNCHANGED <<handler_table, contexts, freelist, last_index,
                           timers, calls, events, silent, rpc_abort>>
       ELSE IF obj.type = "array" /\ is_response(obj.items)
       THEN /\ msg_class' = "response"
            /\ on_rpc_response(response_msgid(obj.items))
            /\ UNCHANGED <<signal_flush, signal_enter, semaphore>>
       ELSE /\ msg_class' = "error"
            /\ rpc_log' = "Message type error"
            /\ UNCHANGED <<handler_table, contexts, freelist, last_index,
                           timers, calls, events, silent, rpc_abort>>
            /\ UNCHANGED <<signal_flush, signal_enter, semaphore>>
    /\ UNCHANGED ui_rest
    /\ UNCHANGED <<write_state, read_state, write_suspended, cancelled,
                   queue_blocks, packer, write_lock, api, wire, sent,
                   peer_closed, io_log, io_abort, mode, results>>

\* A response with the given id, error and result null.
Response(msgid) == ArrObj(<<IntObj(1), IntObj(msgid), NilObj, NilObj>>)

\* A notification with no arguments.
Notification(name) == ArrObj(<<IntObj(2), StrObj(name), ArrObj(<<>>)>>)

\* The responses the peer sends: the ids of a table of the largest size,
\* one id past it and null_msgid.
Responses == {Response(m) : m \in (0..MaxTableSize) \cup {null_msgid}}

\* The notifications the peer sends.
Notifications == {Notification("redraw"), Notification("vimenter"),
                  Notification("nvim_error_event")}

\* Objects that are neither: a request of the peer, wrong sizes, wrong
\* tags, wrong element types, and values that are no arrays.
Malformed ==
    { ArrObj(<<IntObj(0), IntObj(0), StrObj("m"), ArrObj(<<>>)>>),
      ArrObj(<<IntObj(1), StrObj("0"), NilObj, NilObj>>),
      ArrObj(<<IntObj(1), IntObj(0), NilObj>>),
      ArrObj(<<IntObj(1), IntObj(0), NilObj, NilObj, NilObj>>),
      ArrObj(<<IntObj(2), StrObj("vimenter")>>),
      ArrObj(<<IntObj(2), IntObj(0), ArrObj(<<>>)>>),
      ArrObj(<<IntObj(2), StrObj("vimenter"), NilObj>>),
      ArrObj(<<IntObj(3), IntObj(0), NilObj, NilObj>>),
      ArrObj(<<StrObj("1"), IntObj(0), NilObj, NilObj>>),
      ArrObj(<<>>),
      IntObj(1),
      NilObj }

\* What one read() yields once unpacked: one message, or an object that is
\* no message followed by a response.
Batches ==
    {<<m>> : m \in Responses \cup Notifications}
        \cup {<<m, Response(0)>> : m \in Malformed}

\* process::io_can_read when read() returns data: the objects the unpacker
\* yields wait for on_rpc_message.
IoCanRead(objs) ==
    /\ UNCHANGED lab_vars
    /\ Running
    /\ UNCHANGED grid_vars
    /\ UNCHANGED rpc_vars
    /\ QueueIdle
    /\ "read" \notin cancelled
    /\ ~peer_closed
    /\ inbox' = objs
    /\ UNCHANGED <<write_state, read_state, write_suspended, cancelled,
                   queue_blocks, packer, write_lock, api, wire, sent,
                   peer_closed, io_log, io_abort, msg_class, mode, results>>

\* A dispatch_after block of store_handler, run by the queue.
IoTimerFire(t) ==
    /\ UNCHANGED lab_vars
    /\ Running
    /\ UNCHANGED grid_vars
    /\ QueueIdle
    /\ timeout_block(t)
    /\ io_log' = IF write_state = "cancelled" THEN Append(io_log, "timer")
                 ELSE io_log
    /\ UNCHANGED <<write_state, read_state, write_suspended, cancelled,
                   queue_blocks, packer, write_lock, api, wire, sent, inbox,
                   peer_closed, io_abort, msg_class, mode, results>>

\* The write side: requests from several threads, writes of any size, the
\* end of the stream and transport errors.
WriteNext ==
    \/ \E t \in Threads : Input(t)
    \/ \E t \in Threads : Command(t)
    \/ \E t \in Threads, req \in Requests :
          RpcRequestPack(t, req.method, req.args)
    \/ \E t \in Threads : RpcRequestResume(t)
    \/ \E bytes \in -1..Len(packer) : IoCanWrite(bytes)
    \/ IoCanReadError
    \/ IoCanReadEof
    \/ WriteCancelHandler
    \/ ReadCancelHandler

\* The read side: requests of the main thread, whatever the peer sends,
\* the timers and the end of the stream, read once. The requests stay in
\* the buffer: the write handler is left to the write side.
ReadNext ==
    \/ Command(1)
    \/ Eval(1)
    \/ RpcRequestPack(1, <<105>>, <<>>)
    \/ RpcRequestResume(1)
    \/ \E objs \in Batches : IoCanRead(objs)
    \/ OnRpcMessage
    \/ \E t \in timers : IoTimerFire(t)
    \/ ~peer_closed /\ IoCanReadEof
    \/ WriteCancelHandler
    \/ ReadCancelHandler

(***************************************************************************)
(* The synchronous calls of the main thread: get_mode, ui_attach and       *)
(* ui_attach_wait, which block on process::semaphore                       *)
(***************************************************************************)
\* The variables of the I/O loop the synchronous calls leave alone.
io_rest == <<write_state, read_state, write_suspended, cancelled,
             queue_blocks, packer, write_lock, wire, sent, inbox,
             peer_closed, io_log, io_abort, msg_class>>

\* The calls the main thread has started.
CallCount == Len(results) + IF api[1].pc = "idle" THEN 0 ELSE 1

\* The thread record of a call that is about to run rpc_request.
ApiCall(call, msgid) ==
    [pc |-> "pack", msgid |-> msgid, seen |-> "none", call |-> call]

\* process::get_mode up to rpc_request: the handler is stored with the
\* 100 ms timeout.
GetMode ==
    /\ UNCHANGED lab_vars
    /\ Running
    /\ UNCHANGED grid_vars
    /\ api[1].pc = "idle"
    /\ CallCount < MaxCalls
    /\ store_handler_timeout(FALSE)
    /\ api' = [api EXCEPT ![1] = ApiCall("get_mode", last_index')]
    /\ mode' = "unset"
    /\ UNCHANGED io_rest
    /\ UNCHANGED results

\* ui_controller::signal_on_flush
signal_on_flush ==
    /\ signal_flush' = TRUE
    /\ UNCHANGED <<signal_enter, semaphore>>

\* ui_controller::signal_on_entered_flush
signal_on_entered_flush ==
    /\ signal_enter' = TRUE
    /\ UNCHANGED <<signal_flush, semaphore>>

\* process::ui_attach up to rpc_request.
UiAttach ==
    /\ UNCHANGED lab_vars
    /\ Running
    /\ UNCHANGED rpc_vars
    /\ api[1].pc = "idle"
    /\ CallCount < MaxCalls
    /\ signal_on_flush
    /\ api' = [api EXCEPT ![1] = ApiCall("ui_attach", null_msgid)]
    /\ UNCHANGED ui_rest
    /\ UNCHANGED io_rest
    /\ UNCHANGED <<mode, results>>

\* process::ui_attach_wait up to the first rpc_request.
UiAttachWait ==
    /\ UNCHANGED lab_vars
    /\ Running
    /\ UNCHANGED rpc_vars
    /\ api[1].pc = "idle"
    /\ CallCount < MaxCalls
    /\ signal_on_entered_flush
    /\ api' = [api EXCEPT ![1] =
                  ApiCall("ui_attach_wait_command", null_msgid)]
    /\ UNCHANGED ui_rest
    /\ UNCHANGED io_rest
    /\ UNCHANGED <<mode, results>>

\* What a call hands back: get_mode its local variable mode; the attach
\* calls return nothing, the record tells whether the wait had timed out.
CallResult(rec) ==
    [call |-> rec.call,
     value |-> IF rec.call = "get_mode" THEN mode
               ELSE IF rec.pc = "final_wait" THEN "after_timeout"
               ELSE "void"]

\* dispatch_semaphore_wait returning 0: the count was positive and is
\* decremented; the call returns.
SemaphoreWait ==
    /\ UNCHANGED lab_vars
    /\ Running
    /\ UNCHANGED rpc_vars
    /\ api[1].pc \in {"mode_wait", "attach_wait", "timed_wait", "final_wait"}
    /\ semaphore > 0
    /\ semaphore' = semaphore - 1
    /\ results' = Append(results, CallResult(api[1]))
    /\ api' = [api EXCEPT ![1] = ApiIdle]
    /\ UNCHANGED <<signal_flush, signal_enter>>
    /\ UNCHANGED ui_rest
    /\ UNCHANGED io_rest
    /\ UNCHANGED mode

\* ui_attach_wait: dispatch_semaphore_wait(semaphore, timeout) returning
\* non-zero; the block is handed to dispatch_sync_f.
TimedWaitTimeout ==
    /\ UNCHANGED lab_vars
    /\ Running
    /\ UNCHANGED rpc_vars
    /\ UNCHANGED grid_vars
    /\ api[1].pc = "timed_wait"
    /\ semaphore = 0
    /\ api' = [api EXCEPT ![1].pc = "sync"]
    /\ UNCHANGED io_rest
    /\ UNCHANGED <<mode, results>>

\* ui_controller::is_drawable
is_drawable == triple_buffered[complete].draw_tick > 0

\* ui_attach_wait: the block run by dispatch_sync_f on the queue.
SyncBlock ==
    /\ UNCHANGED lab_vars
    /\ Running
    /\ UNCHANGED rpc_vars
    /\ QueueIdle
    /\ api[1].pc = "sync"
    /\ IF is_drawable THEN signal ELSE vimenter
    /\ api' = [api EXCEPT ![1].pc = "final_wait"]
    /\ UNCHANGED ui_rest
    /\ UNCHANGED io_rest
    /\ UNCHANGED <<mode, results>>

\* A "redraw" notification with a flush event, read while the peer is
\* there: the three steps of ui_controller::flush.
RedrawFlushBegin ==
    /\ Running
    /\ ~peer_closed
    /\ inbox = <<>>
    /\ FlushBegin

RedrawFlushExchange ==
    /\ Running
    /\ FlushExchange

RedrawFlushCopy ==
    /\ Running
    /\ FlushCopy

\* A "vimenter" notification: on_rpc_notification calls ui.vimenter().
VimEnter ==
    /\ UNCHANGED lab_vars
    /\ Running
    /\ UNCHANGED rpc_vars
    /\ UNCHANGED io_vars
    /\ QueueIdle
    /\ ~peer_closed
    /\ vimenter
    /\ UNCHANGED ui_rest

\* The handler get_mode stores, when the step invokes it: it sets mode
\* and signals the semaphore.
get_mode_handler ==
    IF \E c \in CtxIds : Len(calls'[c]) > Len(calls[c])
    THEN LET c == CHOOSE c \in CtxIds : Len(calls'[c]) > Len(calls[c])
             timed_out == calls'[c][Len(calls'[c])]
         IN  /\ mode' = IF timed_out
                        THEN IF write_state = "cancelled" THEN "cancelled"
                             ELSE "timed_out"
                        ELSE "decoded"
             /\ semaphore' = semaphore + 1
    ELSE UNCHANGED <<mode, semaphore>>

\* The requests with this msgid that have left the buffer.
Written(msgid) ==
    /\ packer = <<>>
    /\ \E i \in 1..Len(sent) : sent[i].msgid = msgid

\* The reply to a nvim_get_mode request is read and handled.
ModeReply(msgid) ==
    /\ UNCHANGED lab_vars
    /\ Running
    /\ QueueIdle
    /\ ~peer_closed
    /\ msgid # null_msgid
    /\ Written(msgid)
    /\ has_handler(msgid)
    /\ on_rpc_response(msgid)
    /\ get_mode_handler
    /\ UNCHANGED <<signal_flush, signal_enter>>
    /\ UNCHANGED ui_rest
    /\ UNCHANGED io_rest
    /\ UNCHANGED <<api, results>>

\* The timeout block of a get_mode call runs on the queue.
ModeTimerFire(t) ==
    /\ UNCHANGED lab_vars
    /\ Running
    /\ QueueIdle
    /\ timeout_block(t)
    /\ get_mode_handler
    /\ UNCHANGED <<signal_flush, signal_enter>>
    /\ UNCHANGED ui_rest
    /\ UNCHANGED io_rest
    /\ UNCHANGED <<api, results>>

\* The main thread inside its synchronous calls, the queue handling
\* flushes, vimenter, replies, timers and the end of the stream.
SyncNext ==
    \/ GetMode
    \/ UiAttach
    \/ UiAttachWait
    \/ RpcRequestPack(1, <<105>>, <<>>)
    \/ RpcRequestResume(1)
    \/ SemaphoreWait
    \/ TimedWaitTimeout
    \/ SyncBlock
    \/ RedrawFlushBegin
    \/ RedrawFlushExchange
    \/ RedrawFlushCopy
    \/ VimEnter
    \/ \E m \in MsgIds : ModeReply(m)
    \/ \E t \in timers : ModeTimerFire(t)
    \/ IoCanWrite(Len(packer))
    \/ IoCanReadEof
    \/ WriteCancelHandler
    \/ ReadCancelHandler

(***************************************************************************)
(* circular_buffer                                                         *)
(***************************************************************************)
\* mach_vm_round_page: up to the next multiple of the page size.
mach_vm_round_page(val) == ((val + PageSize - 1) \div PageSize) * PageSize

\* The smallest power of two that is not below val, as the shifts of
\* round_up_capacity compute it; 0 for 0 (val - 1 wraps and val + 1 wraps
\* back).
RECURSIVE PowerOfTwo(_, _)
PowerOfTwo(val, p) == IF p >= val THEN p ELSE PowerOfTwo(val, 2 * p)

\* circular_buffer::round_up_capacity
round_up_capacity(val) ==
    IF val = 0 THEN 0 ELSE mach_vm_round_page(PowerOfTwo(val, 1))

\* Memory as mach_vm_allocate hands it out: zero filled.
ZeroBytes(size) == [i \in 1..size |-> 0]

\* circular_buffer()
circular_buffer_default ==
    [buffer |-> <<>>, index |-> 0, length |-> 0, buffsize |-> 0]

\* circular_buffer(initial_capacity)
circular_buffer(initial_capacity) ==
    [buffer |-> ZeroBytes(round_up_capacity(initial_capacity)),
     index |-> 0, length |-> 0,
     buffsize |-> round_up_capacity(initial_capacity)]

\* The byte at an offset of the mirrored region: the second half of the
\* mapping is the first.
mirrored(b, offset) == (offset % b.buffsize) + 1

\* circular_buffer::data() .. end(): the readable bytes.
data(b) == [i \in 1..b.length |-> b.buffer[mirrored(b, b.index + i - 1)]]

\* memcpy(end(), bytes, size)
memcpy_end(b, bytes) ==
    [o \in 1..b.buffsize |->
        IF \E i \in 1..Len(bytes) : mirrored(b, b.index + b.length + i - 1) = o
        THEN bytes[CHOOSE i \in 1..Len(bytes) :
                       mirrored(b, b.index + b.length + i - 1) = o]
        ELSE b.buffer[o]]

\* circular_buffer::clear
clear(b) == [b EXCEPT !.index = 0, !.length = 0]

\* A resize that copies from the start of the old mapping.
resize_source_buffer(b) == b.buffer

\* resize: the source of memcpy(new_buffer, data(), length).
resize_source(b) == data(b)

\* circular_buffer::resize
resize(b, size) ==
    [buffer |-> [o \in 1..size |->
                    IF o <= b.length THEN resize_source(b)[o] ELSE 0],
     index |-> 0, length |-> b.length, buffsize |-> size]

\* circular_buffer::reserve
reserve(b, new_capacity) ==
    IF new_capacity > b.buffsize
    THEN resize(b, round_up_capacity(new_capacity))
    ELSE b

\* A growth that looks at the inserted bytes alone.
new_capacity_rounded_only(b, size) == round_up_capacity(size * 2)

\* insert_expanded: std::max(buffsize * 2, rounded_size)
new_capacity(b, size) ==
    IF b.buffsize * 2 >= round_up_capacity(size * 2) THEN b.buffsize * 2
    ELSE round_up_capacity(size * 2)

\* circular_buffer::insert_expanded
insert_expanded(b, bytes) ==
    LET grown == resize(b, new_capacity(b, Len(bytes))) IN
    [grown EXCEPT !.buffer = memcpy_end(grown, bytes),
                  !.length = grown.length + Len(bytes)]

\* circular_buffer::insert
insert(b, bytes) ==
    IF Len(bytes) > b.buffsize - b.length THEN insert_expanded(b, bytes)
    ELSE [b EXCEPT !.buffer = memcpy_end(b, bytes),
                   !.length = b.length + Len(bytes)]

\* circular_buffer::push_back
push_back(b, byte) ==
    IF b.length = b.buffsize THEN insert_expanded(b, <<byte>>)
    ELSE [b EXCEPT !.buffer = memcpy_end(b, <<byte>>),
                   !.length = b.length + 1]

\* The operator & on two size_t values.
RECURSIVE BitAnd(_, _)
BitAnd(a, b) ==
    IF a = 0 \/ b = 0 THEN 0
    ELSE (a % 2) * (b % 2) + 2 * BitAnd(a \div 2, b \div 2)

\* consume: index = (index + size) & (buffsize - 1); with buffsize 0 the
\* mask is all ones.
consume_index(b, size) ==
    IF b.buffsize = 0 THEN b.index + size
    ELSE BitAnd(b.index + size, b.buffsize - 1)

\* circular_buffer::consume
cbuf_consume(b, size) ==
    [b EXCEPT !.index = consume_index(b, size), !.length = b.length - size]

\* The capacities a buffer is constructed with: none, one byte, more than a
\* page.
InitialCapacities == {1, PageSize + 1}

RingInit ==
    /\ cbuf \in {circular_buffer_default}
                   \cup {circular_buffer(c) : c \in InitialCapacities}
    /\ cbuf_fifo = <<>>
    /\ cbuf_ops = 0
    /\ cbuf_assigns = 0

\* The buffer of a program that has not used it.
RingAtRest ==
    /\ cbuf = circular_buffer_default
    /\ cbuf_fifo = <<>>
    /\ cbuf_ops = 0
    /\ cbuf_assigns = 0

\* The bytes of the next insert: each byte is numbered, so that no two
\* bytes ever inserted are equal.
NextBytes(size) == [i \in 1..size |-> cbuf_ops + i]

not_lab == <<rpc_vars, grid_vars, io_vars>>

not_ring == <<not_lab, codec_vars, cells_vars, redraw_vars>>

not_codec == <<not_lab, ring_vars, cells_vars, redraw_vars>>

not_cells == <<not_lab, ring_vars, codec_vars, redraw_vars>>

not_redraw == <<not_lab, ring_vars, codec_vars, cells_vars>>

RingInsert(size) ==
    /\ cbuf_ops + size <= MaxRingBytes
    /\ cbuf' = insert(cbuf, NextBytes(size))
    /\ cbuf_fifo' = cbuf_fifo \o NextBytes(size)
    /\ cbuf_ops' = cbuf_ops + size
    /\ UNCHANGED cbuf_assigns
    /\ UNCHANGED not_ring

RingPushBack ==
    /\ cbuf_ops + 1 <= MaxRingBytes
    /\ cbuf' = push_back(cbuf, cbuf_ops + 1)
    /\ cbuf_fifo' = Append(cbuf_fifo, cbuf_ops + 1)
    /\ cbuf_ops' = cbuf_ops + 1
    /\ UNCHANGED cbuf_assigns
    /\ UNCHANGED not_ring

\* consume(size): the caller keeps size <= size().
RingConsume(size) ==
    /\ size <= cbuf.length
    /\ cbuf' = cbuf_consume(cbuf, size)
    /\ cbuf_fifo' = SubSeq(cbuf_fifo, size + 1, Len(cbuf_fifo))
    /\ UNCHANGED cbuf_ops
    /\ UNCHANGED cbuf_assigns
    /\ UNCHANGED not_ring

RingClear ==
    /\ cbuf' = clear(cbuf)
    /\ cbuf_fifo' = <<>>
    /\ UNCHANGED cbuf_ops
    /\ UNCHANGED cbuf_assigns
    /\ UNCHANGED not_ring

RingReserve(capacity) ==
    /\ cbuf' = reserve(cbuf, capacity)
    /\ UNCHANGED <<cbuf_fifo, cbuf_ops>>
    /\ UNCHANGED cbuf_assigns
    /\ UNCHANGED not_ring

RingNext ==
    \/ \E size \in 0..MaxInsert : RingInsert(size)
    \/ RingPushBack
    \/ \E size \in 0..MaxRingBytes : RingConsume(size)
    \/ RingClear
    \/ \E capacity \in 0..MaxReserve : RingReserve(capacity)

\* operator=(const circular_buffer&): the buffer is replaced only when it
\* is smaller than the bytes of other; the bytes are copied to its start.
copy_assign(b, other) ==
    LET grows == b.buffsize < other.length
        size == IF grows THEN mach_vm_round_page(other.length)
                ELSE b.buffsize
    IN  [buffer |-> [o \in 1..size |->
                        IF o <= other.length THEN data(other)[o]
                        ELSE IF grows THEN 0 ELSE b.buffer[o]],
         index |-> 0, length |-> other.length, buffsize |-> size]

\* operator=(circular_buffer&&): the buffer takes the fields of other.
move_assign(b, other) == other

\* A buffer of the given capacity that holds the bytes 101, 102, ... after
\* some bytes were consumed.
OtherBuffer(capacity, size, consumed) ==
    cbuf_consume(insert(circular_buffer(capacity),
                        [i \in 1..size |-> 100 + i - consumed]),
                 consumed)

\* The buffers assigned from: empty, within a page, within a capacity that
\* is a power of two, and more than two pages long.
OtherBuffers ==
    {circular_buffer_default,
     OtherBuffer(1, 3, 1),
     OtherBuffer(1, 2 * PageSize, 0),
     OtherBuffer(1, 2 * PageSize + 1, 0)}

RingCopyAssign(other) ==
    /\ cbuf_assigns < MaxAssign
    /\ cbuf_assigns' = cbuf_assigns + 1
    /\ cbuf' = copy_assign(cbuf, other)
    /\ cbuf_fifo' = data(other)
    /\ UNCHANGED cbuf_ops
    /\ UNCHANGED not_ring

RingMoveAssign(other) ==
    /\ cbuf_assigns < MaxAssign
    /\ cbuf_assigns' = cbuf_assigns + 1
    /\ cbuf' = move_assign(cbuf, other)
    /\ cbuf_fifo' = data(other)
    /\ UNCHANGED cbuf_ops
    /\ UNCHANGED not_ring

RingAssignNext ==
    \/ \E size \in 0..MaxInsert : RingInsert(size)
    \/ RingPushBack
    \/ \E size \in 0..MaxRingBytes : RingConsume(size)
    \/ RingClear
    \/ \E capacity \in 0..MaxReserve : RingReserve(capacity)
    \/ \E other \in OtherBuffers : RingCopyAssign(other)
    \/ \E other \in OtherBuffers : RingMoveAssign(other)

(***************************************************************************)
(* msg::unpacker and msg::packer                                           *)
(***************************************************************************)
\* The objects of the arena. An array or a map points at its elements
\* (ptr, size); the other types carry their bytes: an integer its storage,
\* a boolean its byte, a string, binary or extension its data.
arena_object(type, bytes, ptr, size) ==
    [type |-> type, data |-> bytes, ptr |-> ptr, size |-> size]

\* A default constructed msg::object holds msg::invalid.
invalid_object == arena_object("invalid", <<>>, 0, 0)

integer_zero_extended(val, signed) ==
    [i \in 1..8 |-> IF i <= Len(val) THEN val[i] ELSE 0]
\* msg::integer::integer(Int val) for a value of an integer type narrower
\* than 64 bits: sign extended for a signed type, zero extended otherwise.
integer(val, signed) ==
    LET fill == IF signed /\ val[Len(val)] >= 128 THEN 255 ELSE 0 IN
    [i \in 1..8 |-> IF i <= Len(val) THEN val[i] ELSE fill]

\* The value of an unsigned length field.
RECURSIVE size_t(_)
size_t(val) ==
    IF val = <<>> THEN 0 ELSE val[1] + 256 * size_t(Tail(val))

\* unpacker::make up to its first suspension: the coroutine waits for the
\* first byte of an object. obj 0 is nullptr, 1 is &top_level_object;
\* waitbuff holds the bytes copied to the destination of the pending read.
make ==
    [obj |-> 0, buffer |-> <<>>, waitbuff |-> <<>>, waitlen |-> 1,
     at |-> "byte", byte |-> 0, cur |-> 1,
     arena |-> <<invalid_object>>, stack |-> <<>>]

\* unpacker::feed; the caller keeps promise->length = 0.
feed(u, bytes) == [u EXCEPT !.buffer = bytes]

\* obj->emplace<T>(...)
emplace(u, object) == [u EXCEPT !.arena[u.cur] = object]

\* unpack_stack::push_array and push_map: the object becomes a view of
\* count (for a map 2 * count) new objects, which are unpacked next.
push_range(u, type, count, slots) ==
    LET dest == Len(u.arena) + 1 IN
    [u EXCEPT !.arena = [i \in 1..(Len(u.arena) + slots) |->
                            IF i = u.cur
                            THEN arena_object(type, <<>>, dest, count)
                            ELSE IF i <= Len(u.arena) THEN u.arena[i]
                            ELSE invalid_object],
              !.stack = Append(u.stack,
                               [begin |-> dest, end |-> dest + slots])]

\* unpack_stack::pop: the next object to unpack, 0 (nullptr) when done.
pop(u) ==
    IF u.stack = <<>> THEN [u EXCEPT !.cur = 0]
    ELSE LET n == Len(u.stack)
             back == u.stack[n]
         IN  [u EXCEPT !.cur = back.begin,
                       !.stack = IF back.begin + 1 = back.end
                                 THEN SubSeq(u.stack, 1, n - 1)
                                 ELSE [u.stack EXCEPT ![n].begin =
                                           back.begin + 1]]

\* The size of the length field or number that follows a first byte, 0 if
\* none does.
numeric_size(byte) ==
    CASE byte \in {196, 199, 204, 208, 217} -> 1
      [] byte \in {197, 200, 205, 209, 218, 220, 222} -> 2
      [] byte \in {198, 201, 202, 206, 210, 219, 221, 223} -> 4
      [] byte \in {203, 207, 211} -> 8
      [] OTHER -> 0

\* The label the switch jumps to for a first byte that starts a string,
\* binary, extension, array or map.
unpack_label(byte) ==
    CASE byte \in 128..143 \cup {222, 223} -> "map"
      [] byte \in 144..159 \cup {220, 221} -> "array"
      [] byte \in 160..191 \cup {217, 218, 219} -> "string"
      [] byte \in {196, 197, 198} -> "binary"
      [] byte \in {199, 200, 201} \cup 212..216 -> "extension"
      [] OTHER -> "none"

\* The length of the fixed size containers and extensions.
fixed_length(byte) ==
    CASE byte \in 128..159 -> byte % 16
      [] byte \in 160..191 -> byte % 32
      [] byte = 212 -> 2
      [] byte = 213 -> 3
      [] byte = 214 -> 5
      [] byte = 215 -> 9
      [] byte = 216 -> 17
      [] OTHER -> 0

await_suspend_copy_none(u) == <<>>
\* await_suspend: "memcpy(dest, self->buffer, len)", the bytes the
\* destination holds when the coroutine suspends.
await_suspend_copy(u) == u.buffer

RECURSIVE read(_, _, _)
RECURSIVE await_resume(_)

\* "obj = stack.pop()" and what follows it: co_yield of the top level
\* object when nothing is left to unpack, else the next unpack_object.
next_object(u) ==
    LET popped == pop(u) IN
    IF popped.cur = 0
    THEN [popped EXCEPT !.obj = 1, !.at = "yield"]
    ELSE read(popped, "byte", 1)

\* unpack_binary, unpack_extension, unpack_string, unpack_array and
\* unpack_map.
unpack_container(u, label, length) ==
    IF length = 0
    THEN next_object(emplace(u, arena_object(label, <<>>, 0, 0)))
    ELSE IF label = "array" THEN next_object(push_range(u, label, length,
                                                        length))
    ELSE IF label = "map" THEN next_object(push_range(u, label, length,
                                                      2 * length))
    ELSE read(emplace(u, arena_object(label, <<>>, 0, length)),
              "data", length)

\* The switch of unpack_object on the first byte.
unpack_switch(u, byte) ==
    IF byte <= 127
    THEN next_object(emplace(u, arena_object("integer",
                       integer(<<byte>>, FALSE), 0, 0)))
    ELSE IF byte >= 224
    THEN next_object(emplace(u, arena_object("integer",
                       integer(<<byte>>, TRUE), 0, 0)))
    ELSE IF byte = 192
    THEN next_object(emplace(u, arena_object("null", <<>>, 0, 0)))
    ELSE IF byte = 193
    THEN next_object(emplace(u, arena_object("invalid", <<>>, 0, 0)))
    ELSE IF byte \in {194, 195}
    THEN next_object(emplace(u, arena_object("boolean", <<byte - 194>>,
                                             0, 0)))
    ELSE IF numeric_size(byte) > 0
    THEN read([u EXCEPT !.byte = byte], "numeric", numeric_size(byte))
    ELSE unpack_container(u, unpack_label(byte), fixed_length(byte))

\* The coroutine from the point where a read has completed: waitbuff holds
\* the bytes read.
await_resume(u) ==
    IF u.at = "byte" THEN unpack_switch(u, u.waitbuff[1])
    ELSE IF u.at = "data"
    THEN next_object([u EXCEPT !.arena[u.cur].data = u.waitbuff])
    ELSE \* read_numeric<T>: the bytes are swapped into memory order
         LET val == byteswap(u.waitbuff) IN
         IF u.byte \in 204..207
         THEN next_object(emplace(u, arena_object("integer",
                            integer(val, FALSE), 0, 0)))
         ELSE IF u.byte \in 208..211
         THEN next_object(emplace(u, arena_object("integer",
                            integer(val, TRUE), 0, 0)))
         ELSE IF u.byte \in {202, 203}
         THEN next_object(emplace(u, arena_object("float64", val, 0, 0)))
         ELSE unpack_container(u, unpack_label(u.byte),
                  size_t(val)
                      + (IF u.byte \in {199, 200, 201} THEN 1 ELSE 0))

\* co_await promise.read_bytes(dest, size) and read_numeric<T>():
\* await_ready completes the read when the input has size bytes, else
\* await_suspend copies what there is and leaves the rest to unpack().
read(u, at, size) ==
    IF Len(u.buffer) >= size
    THEN await_resume([u EXCEPT !.waitbuff = SubSeq(u.buffer, 1, size),
                                !.buffer = SubSeq(u.buffer, size + 1,
                                                  Len(u.buffer)),
                                !.at = at])
    ELSE [u EXCEPT !.waitbuff = await_suspend_copy(u),
                   !.buffer = <<>>,
                   !.waitlen = size - Len(u.buffer),
                   !.at = at]

\* handle.resume(): after co_yield the coroutine frees the arena, leaves
\* promise.obj null and starts over; after a read it goes on.
handle_resume(u) ==
    IF u.at = "yield"
    THEN read([u EXCEPT !.arena = <<u.arena[1]>>, !.obj = 0, !.cur = 1],
              "byte", 1)
    ELSE await_resume(u)

exhausted_kept(u) == u.buffer
\* unpack(): "length = 0" when the input does not complete the copy.
exhausted(u) == <<>>

\* unpacker::promise_type::unpack: the state after the call.
unpack(u) ==
    IF u.waitlen > Len(u.buffer)
    THEN [u EXCEPT !.waitbuff = u.waitbuff \o u.buffer,
                   !.waitlen = u.waitlen - Len(u.buffer),
                   !.buffer = exhausted(u)]
    ELSE handle_resume(
             [u EXCEPT !.waitbuff = u.waitbuff
                                        \o SubSeq(u.buffer, 1, u.waitlen),
                       !.buffer = SubSeq(u.buffer, u.waitlen + 1,
                                         Len(u.buffer)),
                       !.waitlen = 0])

\* The pointer unpack() returns: nullptr (0) when the copy stays
\* incomplete, else promise.obj after the coroutine has run.
unpack_result(u) == IF u.waitlen > Len(u.buffer) THEN 0 ELSE unpack(u).obj

\* The value of the object at a slot of the arena as its user reads it:
\* the elements of an array, the keys and values of a map in order.
RECURSIVE object_at(_, _)
object_at(arena, slot) ==
    LET o == arena[slot]
        count == IF o.type = "map" THEN 2 * o.size
                 ELSE IF o.type = "array" THEN o.size ELSE 0
    IN  [type |-> o.type, data |-> o.data,
         items |-> [i \in 1..count |-> object_at(arena, o.ptr + i - 1)]]

\* ---- the values packed ----
\* A value handed to the packer: an unsigned or a signed integer, a
\* boolean, a string, or an array of values. "raw" is a message some other
\* encoder wrote, given by its bytes.
Value(kind, bytes, items) ==
    [kind |-> kind, data |-> bytes, items |-> items]

RECURSIVE pack(_)
RECURSIVE pack_all(_)
\* msg::packer::pack, pack_array and pack_tuple
pack(v) ==
    CASE v.kind = "uint" -> pack_uint64(v.data)
      [] v.kind = "int" -> pack_int64(v.data)
      [] v.kind = "bool" -> pack_bool(v.data = <<1>>)
      [] v.kind = "string" -> pack_string(v.data)
      [] v.kind = "array" -> start_array(Len(v.items)) \o pack_all(v.items)
      [] OTHER -> v.data

\* "for (const auto &value : array) pack(value)"
pack_all(vs) ==
    IF vs = <<>> THEN <<>> ELSE pack(Head(vs)) \o pack_all(Tail(vs))

\* The object equal to a value: integers are 64 bit patterns.
RECURSIVE ObjectOf(_)
ObjectOf(v) ==
    [type |-> CASE v.kind \in {"uint", "int"} -> "integer"
                [] v.kind = "bool" -> "boolean"
                [] OTHER -> v.kind,
     data |-> v.data,
     items |-> [i \in 1..Len(v.items) |-> ObjectOf(v.items[i])]]

Uint(val) == Value("uint", val, <<>>)
SInt(val) == Value("int", val, <<>>)
Str(bytes) == Value("string", bytes, <<>>)
Arr(items) == Value("array", <<>>, items)
Raw(bytes) == Value("raw", bytes, <<>>)

\* Unsigned integers on both sides of every width boundary, up to 2^64-1.
UintValues ==
    {uint64_t(0), uint64_t(127), uint64_t(128), uint64_t(255),
     uint64_t(256), uint64_t(65535), uint64_t(65536),
     numeric_limits_max(4), <<0, 0, 0, 0, 1, 0, 0, 0>>,
     <<1, 2, 3, 4, 5, 6, 7, 8>>, numeric_limits_min(8),
     numeric_limits_max(8)}

\* Signed integers on both sides of every width boundary.
IntValues ==
    {uint64_t(0), uint64_t(200), int64_neg(1), int64_neg(32),
     int64_neg(33), int64_neg(128), int64_neg(129), int64_neg(32768),
     int64_neg(32769), numeric_limits_min(4),
     <<255, 255, 255, 127, 255, 255, 255, 255>>, numeric_limits_min(8)}

\* Strings of 0, 1, 31 and 32 bytes.
StringValues ==
    {<<>>, <<104>>, [i \in 1..31 |-> 96 + i], [i \in 1..32 |-> 64 + i]}

\* Arrays: empty, of mixed values, nested, and of 16 elements.
ArrayValues ==
    {Arr(<<>>),
     Arr(<<Uint(uint64_t(300)), Str(<<104, 105>>),
           Value("bool", <<1>>, <<>>)>>),
     Arr(<<Arr(<<SInt(int64_neg(33))>>), Arr(<<>>), Uint(uint64_t(1))>>),
     Arr([i \in 1..16 |-> Uint(uint64_t(i))])}

\* Messages of the other types the decoder accepts: nil, 0xc1, a map, bin,
\* ext, fixext, float, str 16, array 32, map 16.
RawValues ==
    {Raw(<<192>>), Raw(<<193>>), Raw(<<129, 1, 161, 97>>),
     Raw(<<196, 2, 9, 8>>), Raw(<<196, 0>>), Raw(<<199, 1, 5, 7>>),
     Raw(<<212, 1, 2>>), Raw(<<203, 64, 9, 33, 251, 84, 68, 45, 24>>),
     Raw(<<202, 63, 128, 0, 0>>), Raw(<<218, 0, 1, 97>>),
     Raw(<<221, 0, 0, 0, 1, 195>>), Raw(<<222, 0, 1, 192, 144>>)}

Values ==
    {Uint(val) : val \in UintValues} \cup {SInt(val) : val \in IntValues}
        \cup {Value("bool", <<b>>, <<>>) : b \in {0, 1}}
        \cup {Str(bytes) : bytes \in StringValues}
        \cup ArrayValues \cup RawValues

\* The messages that follow the first one of a stream.
Followers == {Uint(uint64_t(128)), Str(<<111, 107>>)}

RECURSIVE FollowerSeqs(_)
FollowerSeqs(n) ==
    IF n = 0 THEN {<<>>}
    ELSE FollowerSeqs(n - 1)
             \cup {Append(s, f) : s \in {t \in FollowerSeqs(n - 1) :
                                            Len(t) = n - 1},
                                  f \in Followers}

\* The streams: one to MaxMessages messages.
Streams ==
    {<<v>> \o s : v \in Values, s \in FollowerSeqs(MaxMessages - 1)}

CodecInit ==
    /\ codec_vals \in Streams
    /\ codec_rest = pack_all(codec_vals)
    /\ unp = make
    /\ codec_out = <<>>
    /\ codec_ret = "none"
    /\ codec_bytewise = TRUE
    /\ codec_empty = FALSE

\* The codec of a program that has not used it.
CodecAtRest ==
    /\ codec_vals = <<>>
    /\ codec_rest = <<>>
    /\ unp = make
    /\ codec_out = <<>>
    /\ codec_ret = "none"
    /\ codec_bytewise = TRUE
    /\ codec_empty = FALSE

\* feed() of the next size bytes of the stream, allowed when the unpacker
\* holds no input.
CodecFeed(size) ==
    /\ UNCHANGED not_codec
    /\ unp.buffer = <<>>
    /\ unp' = feed(unp, SubSeq(codec_rest, 1, size))
    /\ codec_rest' = SubSeq(codec_rest, size + 1, Len(codec_rest))
    /\ codec_ret' = "fed"
    /\ codec_bytewise' = (codec_bytewise /\ size <= 1)
    /\ codec_empty' = (codec_empty \/ size = 0)
    /\ UNCHANGED <<codec_vals, codec_out>>

\* unpack(); the caller reads the object returned at once.
CodecUnpack ==
    /\ UNCHANGED not_codec
    /\ unp' = unpack(unp)
    /\ codec_ret' = IF unpack_result(unp) = 0 THEN "nullptr" ELSE "object"
    /\ codec_out' = IF unpack_result(unp) = 0 THEN codec_out
                    ELSE Append(codec_out, object_at(unp'.arena, 1))
    /\ UNCHANGED <<codec_vals, codec_rest, codec_bytewise, codec_empty>>

CodecNext ==
    \/ \E size \in 0..Len(codec_rest) : CodecFeed(size)
    \/ CodecUnpack

(***************************************************************************)
(* ui_controller: the events that write cells                              *)
(***************************************************************************)
\* grid::get(row, col) as an index into cells (0 is the first cell).
grid_get(g, row, col) == row * g.grid_width + col

\* memcpy(dest, src, sizeof(cell) * width) inside the vector of cells.
memcpy_cells(cells, dest, src, width) ==
    [i \in 1..Len(cells) |->
        IF i - 1 >= dest /\ i - 1 < dest + width
        THEN cells[src + (i - 1 - dest) + 1]
        ELSE cells[i]]

RECURSIVE scroll_loop(_, _, _, _, _, _)
\* grid_scroll: "for (long i=0; i<count; ++i)"
scroll_loop(cells, dest, src, row_width, width, count) ==
    IF count <= 0 THEN cells
    ELSE scroll_loop(memcpy_cells(cells, dest, src, width),
                     dest + row_width, src + row_width, row_width, width,
                     count - 1)

scroll_plan_ascending(g, top, bottom, left, rows) ==
    IF rows >= 0
    THEN [dest |-> grid_get(g, top, left), row_width |-> g.grid_width,
          count |-> (bottom - top) - rows]
    ELSE [dest |-> grid_get(g, top - rows, left),
          row_width |-> g.grid_width,
          count |-> (bottom - top) + rows]
\* grid_scroll: dest, row_width and count for the direction of the scroll.
scroll_plan(g, top, bottom, left, rows) ==
    IF rows >= 0
    THEN [dest |-> grid_get(g, top, left), row_width |-> g.grid_width,
          count |-> (bottom - top) - rows]
    ELSE [dest |-> grid_get(g, bottom - 1, left),
          row_width |-> 0 - g.grid_width,
          count |-> (bottom - top) + rows]

\* ui_controller::grid_scroll on the writing grid
grid_scroll(g, top, bottom, left, right, rows) ==
    IF bottom < top \/ right < left THEN g
    ELSE IF bottom > g.grid_height \/ right > g.grid_width THEN g
    ELSE LET plan == scroll_plan(g, top, bottom, left, rows)
             src == plan.dest + g.grid_width * rows
         IN  [g EXCEPT !.cells = scroll_loop(g.cells, plan.dest, src,
                                             plan.row_width, right - left,
                                             plan.count)]

\* The highlight table of the grids tried on their own: the default group
\* and one defined group.
CellsHlTable ==
    <<ZeroAttrs,
      [background |-> 1, foreground |-> 2, special |-> 3,
       flags |-> {"bold"}]>>

\* A grid of the given size in which every cell holds its own marker.
MarkerGrid(width, height) ==
    [grid_resize(NewGrid(0, 0), width, height) EXCEPT
        !.cells = [i \in 1..(width * height) |->
                      MakeCell(<<64 + i>>, ZeroAttrs)]]

\* The size of the grid the events are tried on.
CellsWidth == 2
CellsHeight == 3

\* The rows and the columns grid_scroll events carry, as <<top, bottom>>
\* and <<left, right>>: the whole grid, all of it but the first row or
\* column, an inverted range and a range past the edge. They are scrolled
\* by up to the height of the grid in both directions.
ScrollRowRanges ==
    {<<0, CellsHeight>>, <<1, CellsHeight>>, <<1, 0>>,
     <<0, CellsHeight + 1>>}
ScrollColRanges ==
    {<<0, CellsWidth>>, <<1, CellsWidth>>, <<1, 0>>, <<0, CellsWidth + 1>>}
ScrollRows == (0 - CellsHeight)..CellsHeight

\* The cell arrays grid_line events carry: single and double width cells,
\* a first update without a highlight id, repeat counts that fill the row
\* and that exceed it, an empty cell with repeat count 0 after a full row,
\* and an update of the wrong type.
CellsLines ==
    {<<CellUpdate(<<97>>, <<1>>, NoArg)>>,
     <<CellUpdate(<<97>>, NoArg, NoArg)>>,
     <<CellUpdate(<<97>>, <<1>>, NoArg), CellUpdate(<<>>, NoArg, NoArg)>>,
     <<CellUpdate(<<>>, <<1>>, <<1>>)>>,
     <<CellUpdate(<<97>>, <<1>>, NoArg), CellUpdate(<<>>, <<1>>, <<5>>)>>,
     <<CellUpdate(<<97>>, <<1>>, <<CellsWidth + 1>>)>>,
     <<CellUpdate(<<98>>, <<0>>, NoArg),
       CellUpdate(<<99>>, <<1>>, <<CellsWidth>>),
       CellUpdate(<<100>>, <<0>>, NoArg)>>,
     <<CellUpdate(<<97>>, <<1>>, <<CellsWidth>>),
       CellUpdate(<<>>, <<1>>, <<0>>)>>,
     <<CellUpdate(<<97>>, <<1>>, <<CellsWidth>>),
       CellUpdate(<<>>, <<1>>, <<0>>),
       CellUpdate(<<98>>, <<1>>, <<1>>)>>,
     <<CellUpdate(<<97>>, <<1>>, NoArg),
       [well_typed |-> FALSE, text |-> <<>>, hl |-> NoArg,
        repeat |-> NoArg],
       CellUpdate(<<98>>, <<1>>, NoArg)>>}

\* The positions grid_line events carry, as <<row, col>>: the corners of
\* the grid, a row past the last and a column past the last.
LinePositions ==
    {<<0, 0>>, <<0, CellsWidth - 1>>, <<CellsHeight - 1, 0>>,
     <<CellsHeight - 1, CellsWidth - 1>>, <<CellsHeight, 0>>,
     <<0, CellsWidth>>}

CellsEvent(name, args, cells) ==
    [name |-> name, args |-> args, cells |-> cells]

CellsInit ==
    /\ cg = MarkerGrid(CellsWidth, CellsHeight)
    /\ cg_prev = cg
    /\ cg_event = CellsEvent("none", <<>>, <<>>)
    /\ cg_count = 0
    /\ cg_abort = FALSE

\* The grid of a program that has not received an event.
CellsAtRest ==
    /\ cg = NewGrid(0, 0)
    /\ cg_prev = cg
    /\ cg_event = CellsEvent("none", <<>>, <<>>)
    /\ cg_count = 0
    /\ cg_abort = FALSE

\* redraw_event for ["grid_scroll", [1, top, bottom, left, right, rows]]
CellsScroll(top, bottom, left, right, rows) ==
    /\ ~cg_abort
    /\ cg_count < MaxEvents
    /\ UNCHANGED not_cells
    /\ cg' = grid_scroll(cg, top, bottom, left, right, rows)
    /\ cg_prev' = cg
    /\ cg_event' = CellsEvent("grid_scroll",
                              <<top, bottom, left, right, rows>>, <<>>)
    /\ cg_count' = cg_count + 1
    /\ UNCHANGED cg_abort

\* redraw_event for ["grid_line", [1, row, col, cells]]. A call that
\* touches memory it must not touch leaves the process without a defined
\* state.
CellsLine(row, col, cells) ==
    /\ ~cg_abort
    /\ cg_count < MaxEvents
    /\ UNCHANGED not_cells
    /\ LET result == grid_line(cg, row, col, cells, CellsHlTable) IN
       /\ cg' = result.grid
       /\ cg_abort' = result.fault
    /\ cg_prev' = cg
    /\ cg_event' = CellsEvent("grid_line", <<row, col>>, cells)
    /\ cg_count' = cg_count + 1

CellsNext ==
    \/ \E r \in ScrollRowRanges, c \in ScrollColRanges, rows \in ScrollRows :
           CellsScroll(r[1], r[2], c[1], c[2], rows)
    \/ \E at \in LinePositions, cells \in CellsLines :
           CellsLine(at[1], at[2], cells)

(***************************************************************************)
(* ui_controller: redraw                                                   *)
(***************************************************************************)
\* msg::boolean and msg::map objects; a map holds its keys and values in
\* turn, as the unpacker stores them.
BoolObj(b) ==
    [type |-> "boolean", int |-> IF b THEN 1 ELSE 0, str |-> "",
     items |-> <<>>]
MapObj(pairs) == [type |-> "map", int |-> 0, str |-> "", items |-> pairs]

\* The parameter types of the member functions redraw_event applies.
Signature(name) ==
    CASE name = "grid_line" -> <<"size_t", "size_t", "size_t", "array">>
      [] name = "grid_resize" -> <<"size_t", "size_t", "size_t">>
      [] name = "grid_scroll" ->
            <<"size_t", "size_t", "size_t", "size_t", "size_t", "long">>
      [] name = "flush" -> <<>>
      [] name = "grid_clear" -> <<"size_t">>
      [] name = "hl_attr_define" -> <<"size_t", "map">>
      [] name = "mode_info_set" -> <<"bool", "array">>
      [] name = "mode_change" -> <<"string", "size_t">>
      [] name = "grid_cursor_goto" -> <<"size_t", "size_t", "size_t">>
      [] name = "option_set" -> <<"string", "object">>
      [] OTHER -> <<>>

\* A type check that takes any object for an integral parameter.
is_type_integral_any(T, object) ==
    CASE T \in {"size_t", "long"} -> TRUE
      [] T = "bool" -> object.type = "boolean"
      [] T = "object" -> TRUE
      [] OTHER -> object.type = T

\* is<T>(object): an integral T takes any msg::integer, msg::object takes
\* every object.
is_type(T, object) ==
    CASE T \in {"size_t", "long"} -> object.type = "integer"
      [] T = "bool" -> object.type = "boolean"
      [] T = "object" -> TRUE
      [] OTHER -> object.type = T

\* get<size_t>(object): msg::integer::as<size_t>() of a negative value
\* is a value no index of the model reaches.
as_size_t(object) == IF object.int < 0 THEN SizeWrapped ELSE object.int

\* The UTF-8 bytes of the cell texts the events carry.
TextBytes(str) ==
    CASE str = "" -> <<>>
      [] str = " " -> <<32>>
      [] str = "a" -> <<97>>
      [] str = "b" -> <<98>>

\* type_check<Ts...>(array) of cell_update::set
type_check(types, array) ==
    /\ Len(array) = Len(types)
    /\ \A i \in 1..Len(types) : array[i].type = types[i]

\* cell_update::set: the text, highlight id and repeat count an element of
\* the cells array carries, or that it does not type check.
cell_update_set(object) ==
    LET array == object.items
        none == [well_typed |-> FALSE, text |-> <<>>, hl |-> NoArg,
                 repeat |-> NoArg]
    IN  IF object.type # "array" THEN none
        ELSE IF type_check(<<"string">>, array)
        THEN CellUpdate(TextBytes(array[1].str), NoArg, NoArg)
        ELSE IF type_check(<<"string", "integer">>, array)
        THEN CellUpdate(TextBytes(array[1].str), <<array[2].int>>, NoArg)
        ELSE IF type_check(<<"string", "integer", "integer">>, array)
        THEN CellUpdate(TextBytes(array[1].str), <<array[2].int>>,
                        <<array[3].int>>)
        ELSE none

\* A redraw handler that writes to the writing grid: get_grid ends the
\* process for any grid but the global one.
write_grid(s, grid_id, result) ==
    IF get_grid_aborts(grid_id) \/ result.fault
    THEN [s EXCEPT !.abort = TRUE]
    ELSE [s EXCEPT !.writing = result.grid]

\* ui_controller::grid_resize
ui_grid_resize(s, grid_id, width, height) ==
    write_grid(s, grid_id,
               [grid |-> grid_resize(s.writing, width, height),
                fault |-> FALSE])

\* ui_controller::grid_clear
ui_grid_clear(s, grid_id) ==
    LET empty == [ZeroCell EXCEPT
                     !.attrs.background = s.hl_table[1].background]
    IN  write_grid(s, grid_id,
                   [grid |-> [s.writing EXCEPT
                                 !.cells = [i \in 1..Len(@) |-> empty]],
                    fault |-> FALSE])

\* ui_controller::grid_cursor_goto
ui_grid_cursor_goto(s, grid_id, row, col) ==
    write_grid(s, grid_id,
               [grid |-> grid_cursor_goto(s.writing, row, col),
                fault |-> FALSE])

\* ui_controller::grid_line
ui_grid_line(s, grid_id, row, col, cells) ==
    write_grid(s, grid_id,
               grid_line(s.writing, row, col,
                         [i \in 1..Len(cells) |-> cell_update_set(cells[i])],
                         s.hl_table))

\* ui_controller::grid_scroll: the ranges are tested before get_grid.
ui_grid_scroll(s, grid_id, top, bottom, left, right, rows) ==
    IF bottom < top \/ right < left THEN s
    ELSE write_grid(s, grid_id,
                    [grid |-> grid_scroll(s.writing, top, bottom, left,
                                          right, rows),
                     fault |-> FALSE])

\* ui_controller::flush, run without the presentation side in between:
\* the writing grid is counted and published, writing becomes a copy of
\* it, and the waiter or the window is told.
ui_flush(s) ==
    LET done == [s.writing EXCEPT !.draw_tick = next_draw_tick(@)] IN
    [s EXCEPT !.complete = done,
              !.writing = flush_copy(s.complete, done),
              !.signal_flush = FALSE,
              !.notes = Append(@, IF s.signal_flush THEN "signal"
                                  ELSE "window.redraw")]

\* hl_new_entry: the table after the call and the index of the entry the
\* returned pointer refers to.
hl_new_entry(table, hlid) ==
    LET table_size == Len(table) IN
    IF hlid = table_size
    THEN [table |-> Append(table, table[1]), entry |-> table_size]
    ELSE IF hlid < table_size
    THEN [table |-> [table EXCEPT ![hlid + 1] = table[1]], entry |-> hlid]
    ELSE [table |-> [i \in 1..hlid |-> IF i <= table_size THEN table[i]
                                       ELSE table[1]],
          entry |-> hlid - 1]

\* rgb_color(uint32_t rgb): "__builtin_bswap32(rgb << 8)", the red
\* component in the lowest byte.
rgb_color(rgb) ==
    LET low == rgb % 16777216 IN
    (low % 256) * 65536 + ((low \div 256) % 256) * 256 + (low \div 65536)

\* rgb_color::red, green and blue
red(color) == color % 256
green(color) == (color \div 256) % 256
blue(color) == (color \div 65536) % 256

\* set_rgb_color: a value that is no integer is logged.
set_rgb_color(color, object) ==
    IF object.type # "integer" THEN color ELSE rgb_color(object.int)

\* The flags hl_attr_define sets from the keys of the same name.
HlFlags == {"underline", "bold", "italic", "strikethrough", "undercurl",
            "reverse"}

\* hl_attr_define: one turn of the loop over the definition.
hl_attr_set(attrs, key, value) ==
    IF key.type # "string" THEN attrs
    ELSE CASE key.str = "foreground" ->
                [attrs EXCEPT !.foreground = set_rgb_color(@, value)]
           [] key.str = "background" ->
                [attrs EXCEPT !.background = set_rgb_color(@, value)]
           [] key.str = "special" ->
                [attrs EXCEPT !.special = set_rgb_color(@, value)]
           [] key.str \in HlFlags ->
                [attrs EXCEPT !.flags = @ \cup {key.str}]
           [] OTHER -> attrs

RECURSIVE hl_attr_loop(_, _)
hl_attr_loop(attrs, pairs) ==
    IF Len(pairs) < 2 THEN attrs
    ELSE hl_attr_loop(hl_attr_set(attrs, pairs[1], pairs[2]),
                      SubSeq(pairs, 3, Len(pairs)))

\* ui_controller::hl_attr_define
ui_hl_attr_define(s, hlid, definition) ==
    LET new == hl_new_entry(s.hl_table, hlid)
        attrs == hl_attr_loop(new.table[new.entry + 1], definition)
        swapped == IF "reverse" \in attrs.flags
                   THEN [attrs EXCEPT !.background = attrs.foreground,
                                      !.foreground = attrs.background]
                   ELSE attrs
    IN  [s EXCEPT !.hl_table = [new.table EXCEPT ![new.entry + 1] = swapped]]

\* cursor_attributes attrs = {}
ZeroCursorAttrs ==
    [foreground |-> 0, background |-> 0, special |-> 0, shape |-> "block",
     blinks |-> FALSE, shortname |-> "", percentage |-> 0, blinkwait |-> 0,
     blinkon |-> 0, blinkoff |-> 0]

\* to_cursor_shape
to_cursor_shape(name) ==
    IF name \in {"block", "vertical", "horizontal"} THEN name ELSE "block"

\* set_color_attrs
set_color_attrs(cursor_attrs, table, hlid) ==
    LET hl_attrs == hl_get_entry(table, hlid) IN
    IF hlid # 0
    THEN [cursor_attrs EXCEPT !.special = hl_attrs.special,
                              !.foreground = hl_attrs.foreground,
                              !.background = hl_attrs.background]
    ELSE [cursor_attrs EXCEPT !.special = hl_attrs.special,
                              !.foreground = hl_attrs.background,
                              !.background = hl_attrs.foreground]

\* get<uint16_t>(value)
as_uint16_t(object) == object.int % 65536

\* memcpy(&attrs.shortname, shortname.data(), min(2, shortname.size()))
as_shortname(str) == IF Len(str) <= 2 THEN str ELSE SubSeq(str, 1, 2)

\* to_cursor_attributes: one turn of the loop over the map; a value of the
\* wrong type is logged.
cursor_attr_set(attrs, table, key, value) ==
    IF key.type # "string" THEN attrs
    ELSE LET integer_for(name) ==
                 key.str = name /\ value.type = "integer"
             string_for(name) == key.str = name /\ value.type = "string"
         IN  CASE integer_for("cell_percentage") ->
                    [attrs EXCEPT !.percentage = as_uint16_t(value)]
               [] integer_for("blinkwait") ->
                    [attrs EXCEPT !.blinkwait = as_uint16_t(value)]
               [] integer_for("blinkon") ->
                    [attrs EXCEPT !.blinkon = as_uint16_t(value)]
               [] integer_for("blinkoff") ->
                    [attrs EXCEPT !.blinkoff = as_uint16_t(value)]
               [] string_for("cursor_shape") ->
                    [attrs EXCEPT !.shape = to_cursor_shape(value.str)]
               [] integer_for("attr_id") ->
                    set_color_attrs(attrs, table, as_size_t(value))
               [] string_for("short_name") ->
                    [attrs EXCEPT !.shortname = as_shortname(value.str)]
               [] OTHER -> attrs

RECURSIVE cursor_attr_loop(_, _, _)
cursor_attr_loop(attrs, table, pairs) ==
    IF Len(pairs) < 2 THEN attrs
    ELSE cursor_attr_loop(cursor_attr_set(attrs, table, pairs[1], pairs[2]),
                          table, SubSeq(pairs, 3, Len(pairs)))

\* to_cursor_attributes
to_cursor_attributes(table, map) ==
    LET attrs == cursor_attr_loop(ZeroCursorAttrs, table, map) IN
    [attrs EXCEPT !.blinks = /\ attrs.blinkwait # 0
                             /\ attrs.blinkoff # 0
                             /\ attrs.blinkon # 0]

RECURSIVE mode_info_loop(_, _, _)
\* mode_info_set: the loop over the property maps; an object that is no
\* map is logged.
mode_info_loop(s, current_mode_name, property_maps) ==
    IF property_maps = <<>> THEN s
    ELSE LET object == Head(property_maps)
             attrs == to_cursor_attributes(s.hl_table, object.items)
             next == IF object.type # "map" THEN s
                     ELSE [s EXCEPT
                             !.cursor_attrs =
                                 IF attrs.shortname = current_mode_name
                                 THEN attrs ELSE @,
                             !.mode_table = Append(@, attrs)]
         IN  mode_info_loop(next, current_mode_name, Tail(property_maps))

\* ui_controller::mode_info_set
ui_mode_info_set(s, enabled, property_maps) ==
    mode_info_loop([s EXCEPT !.mode_table = <<>>],
                   s.cursor_attrs.shortname, property_maps)

\* A mode_change that looks up the table without a test.
ui_mode_change_unchecked(s, name, index) ==
    [s EXCEPT !.cursor_attrs =
                 IF index < Len(s.mode_table) THEN s.mode_table[index + 1]
                 ELSE ZeroCursorAttrs]

\* ui_controller::mode_change
ui_mode_change(s, name, index) ==
    IF index >= Len(s.mode_table) THEN s
    ELSE [s EXCEPT !.cursor_attrs = s.mode_table[index + 1]]

\* The options of ui_options.
ExtOptions == {"ext_cmdline", "ext_hlstate", "ext_linegrid", "ext_messages",
               "ext_multigrid", "ext_popupmenu", "ext_tabline",
               "ext_termcolors"}

\* ui_controller::send_option_change
send_option_change(s) == ~s.signal_flush /\ ~s.signal_enter

\* The window is told, when no client waits for a flush.
notify(s, note) ==
    IF send_option_change(s) THEN [s EXCEPT !.notes = Append(@, note)]
    ELSE s

\* ui_controller::set_option with set_font_option, set_ext_option and
\* set_showtabline_option: a value of the wrong type is logged.
ui_set_option(s, name, value) ==
    CASE name = "guifont" ->
            IF value.type # "string" THEN s
            ELSE notify([s EXCEPT !.option_guifont = value.str],
                        "window.font_set")
      [] name \in ExtOptions ->
            IF value.type # "boolean" THEN s
            ELSE [s EXCEPT !.ui_opts[name] = (value.int = 1)]
      [] name = "showtabline" ->
            IF value.type # "integer" \/ value.int < 0 \/ value.int > 2
            THEN s
            ELSE notify([s EXCEPT !.option_showtabline = value.int],
                        "window.showtabline_set")
      [] OTHER -> s

\* call(): the member function invoked with get<Ts>(array[Indexes])...
call_member(s, name, a) ==
    CASE name = "grid_line" ->
            ui_grid_line(s, as_size_t(a[1]), as_size_t(a[2]),
                         as_size_t(a[3]), a[4].items)
      [] name = "grid_resize" ->
            ui_grid_resize(s, as_size_t(a[1]), as_size_t(a[2]),
                           as_size_t(a[3]))
      [] name = "grid_scroll" ->
            ui_grid_scroll(s, as_size_t(a[1]), as_size_t(a[2]),
                           as_size_t(a[3]), as_size_t(a[4]),
                           as_size_t(a[5]), a[6].int)
      [] name = "flush" -> ui_flush(s)
      [] name = "grid_clear" -> ui_grid_clear(s, as_size_t(a[1]))
      [] name = "hl_attr_define" ->
            ui_hl_attr_define(s, as_size_t(a[1]), a[2].items)
      [] name = "mode_info_set" ->
            ui_mode_info_set(s, a[1].int = 1, a[2].items)
      [] name = "mode_change" ->
            ui_mode_change(s, a[1].str, as_size_t(a[2]))
      [] name = "grid_cursor_goto" ->
            ui_grid_cursor_goto(s, as_size_t(a[1]), as_size_t(a[2]),
                                as_size_t(a[3]))
      [] name = "option_set" -> ui_set_option(s, a[1].str, a[2])

\* apply_one: the member function is invoked when the tuple is an array
\* with at least as many objects as the function has parameters, of the
\* types of the parameters; else a type error is logged.
apply_one(s, name, object) ==
    LET types == Signature(name)
        args == object.items
    IN  IF /\ object.type = "array"
           /\ Len(types) <= Len(args)
           /\ \A i \in 1..Len(types) : is_type(types[i], args[i])
        THEN call_member(s, name, args)
        ELSE s

RECURSIVE apply(_, _, _)
\* apply: once for each parameter tuple; nothing runs once the process
\* was terminated.
apply(s, name, array) ==
    IF array = <<>> \/ s.abort THEN s
    ELSE apply(apply_one(s, name, Head(array)), name, Tail(array))

\* The events redraw_event applies through a member function. The events
\* default_colors_set, tabline_update, set_title, busy_start and busy_stop
\* are applied by the program as well and are not among the events of
\* this model.
AppliedEvents == {"grid_line", "grid_resize", "grid_scroll", "flush",
                  "grid_clear", "hl_attr_define", "mode_info_set",
                  "mode_change", "grid_cursor_goto"}

\* An option_set that tells the window every time.
options_changed_always(new, old) == TRUE

\* redraw_event: "ui_opts != oldopts"
options_changed(new, old) == new # old

\* ui_controller::redraw_event
redraw_event(s, event_object) ==
    LET event == event_object.items IN
    IF \/ event_object.type # "array"
       \/ event = <<>>
       \/ event[1].type # "string"
    THEN s
    ELSE LET name == event[1].str
             args == Tail(event)
         IN  IF name \in AppliedEvents THEN apply(s, name, args)
             ELSE IF name = "option_set"
             THEN LET set == apply(s, name, args) IN
                  IF options_changed(set.ui_opts, s.ui_opts)
                  THEN notify(set, "window.options_set")
                  ELSE set
             ELSE s

RECURSIVE redraw(_, _)
\* ui_controller::redraw
redraw(s, redraw_events) ==
    IF redraw_events = <<>> \/ s.abort THEN s
    ELSE redraw(redraw_event(s, Head(redraw_events)), Tail(redraw_events))

\* ui_controller(): hl_table(1), no waiter. The constructors give no value
\* to the cursor position and the cursor attributes of a grid and to
\* ui_opts: start names the values found there and the waiter
\* ui_attach_wait may have registered before the first notification.
NewController(start) ==
    [writing |-> NewGrid(start.cursor, start.cursor),
     complete |-> NewGrid(start.cursor, start.cursor),
     cursor_attrs |-> [ZeroCursorAttrs EXCEPT !.shortname = start.shortname],
     hl_table |-> <<ZeroAttrs>>,
     mode_table |-> <<>>,
     ui_opts |-> [o \in ExtOptions |-> start.opts],
     option_guifont |-> "",
     option_showtabline |-> 0,
     signal_flush |-> FALSE,
     signal_enter |-> start.waiter,
     notes |-> <<>>,
     abort |-> FALSE]

\* The values tried for the members without an initial value, with and
\* without a waiter.
Starts ==
    {[cursor |-> 0, shortname |-> "", opts |-> FALSE, waiter |-> FALSE],
     [cursor |-> 1, shortname |-> "n", opts |-> TRUE, waiter |-> FALSE],
     [cursor |-> 0, shortname |-> "", opts |-> FALSE, waiter |-> TRUE]}

RedrawInit ==
    /\ ui \in {NewController(start) : start \in Starts}
    /\ ui_prev = ui
    /\ ui_events = <<>>
    /\ ui_count = 0

\* The controller of a program that has not received a notification.
RedrawAtRest ==
    /\ ui = NewController([cursor |-> 0, shortname |-> "", opts |-> FALSE,
                           waiter |-> FALSE])
    /\ ui_prev = ui
    /\ ui_events = <<>>
    /\ ui_count = 0

\* A redraw event [name, tuple, ...] and an argument tuple of integers.
Event(name, tuples) == ArrObj(<<StrObj(name)>> \o tuples)
Ints(values) == ArrObj([i \in 1..Len(values) |-> IntObj(values[i])])

\* A cell of a grid_line event: [text, hl_id, repeat].
CellObj(text, hl, repeat) ==
    ArrObj(<<StrObj(text), IntObj(hl), IntObj(repeat)>>)

\* ["grid_line", [1, row, col, cells]]
LineEvent(row, col, cells) ==
    Event("grid_line",
          <<ArrObj(<<IntObj(1), IntObj(row), IntObj(col), ArrObj(cells)>>)>>)

\* ["hl_attr_define", [id, {key: value, ...}]]
HlEvent(id, pairs) ==
    Event("hl_attr_define", <<ArrObj(<<IntObj(id), MapObj(pairs)>>)>>)

\* ["option_set", [name, value], ...]
OptionTuple(name, value) == ArrObj(<<StrObj(name), value>>)

\* The property map of a mode.
ModeObj(short_name, shape, attr_id) ==
    MapObj(<<StrObj("cursor_shape"), StrObj(shape),
             StrObj("short_name"), StrObj(short_name),
             StrObj("attr_id"), IntObj(attr_id),
             StrObj("cell_percentage"), IntObj(25)>>)

\* The first notification of a session: the options, two modes, a
\* highlight group, a grid of 2 by 2 cells with text in both rows, the
\* cursor in the last cell, and a flush.
FirstRedraw ==
    <<Event("option_set", <<OptionTuple("ext_linegrid", BoolObj(TRUE))>>),
      Event("mode_info_set",
            <<ArrObj(<<BoolObj(TRUE),
                       ArrObj(<<ModeObj("n", "block", 0),
                                ModeObj("i", "vertical", 1)>>)>>)>>),
      HlEvent(1, <<StrObj("foreground"), IntObj(66051)>>),
      Event("grid_resize", <<Ints(<<1, 2, 2>>)>>),
      Event("grid_line",
            <<ArrObj(<<IntObj(1), IntObj(0), IntObj(0),
                       ArrObj(<<CellObj("a", 1, 2)>>)>>),
              ArrObj(<<IntObj(1), IntObj(1), IntObj(0),
                       ArrObj(<<CellObj("b", 0, 1), CellObj("a", 1, 1)>>)>>)>>),
      Event("grid_cursor_goto", <<Ints(<<1, 1, 1>>)>>),
      Event("flush", <<ArrObj(<<>>)>>)>>

\* Events on the cells and the cursor: sizes, positions inside the grid
\* of 2 by 2 cells, a row and a column past it, scroll regions inside it,
\* past its height, past its width and inverted, a grid that is not the
\* global one.
GridEvents ==
    {Event("grid_resize", <<Ints(<<1, 2, 2>>)>>),
     Event("grid_resize", <<Ints(<<1, 1, 1>>)>>),
     Event("grid_resize", <<Ints(<<2, 1, 1>>)>>),
     Event("grid_cursor_goto", <<Ints(<<1, 0, 0>>)>>),
     Event("grid_cursor_goto", <<Ints(<<1, 1, 1>>)>>),
     Event("grid_cursor_goto", <<Ints(<<1, 2, 0>>)>>),
     Event("grid_cursor_goto", <<Ints(<<1, 0, 2>>)>>),
     LineEvent(0, 1, <<CellObj("b", 1, 1)>>),
     LineEvent(2, 0, <<CellObj("b", 1, 1)>>),
     LineEvent(0, 2, <<CellObj("b", 1, 1)>>),
     Event("grid_scroll", <<Ints(<<1, 0, 2, 0, 2, 1>>)>>),
     Event("grid_scroll", <<Ints(<<1, 0, 3, 0, 2, 1>>)>>),
     Event("grid_scroll", <<Ints(<<1, 0, 2, 0, 3, 1>>)>>),
     Event("grid_scroll", <<Ints(<<1, 1, 0, 0, 2, 1>>)>>),
     Event("grid_scroll", <<Ints(<<1, 0, 2, 1, 0, 1>>)>>),
     Event("grid_clear", <<Ints(<<1>>)>>),
     Event("flush", <<ArrObj(<<>>)>>)}

\* hl_attr_define for the ids 1, 2 and 3: colours, flags and reverse.
HlEvents ==
    {HlEvent(1, <<StrObj("background"), IntObj(197121)>>),
     HlEvent(2, <<StrObj("foreground"), IntObj(66051),
                  StrObj("background"), IntObj(460551),
                  StrObj("reverse"), BoolObj(TRUE)>>),
     HlEvent(3, <<StrObj("bold"), BoolObj(TRUE),
                  StrObj("special"), IntObj(255)>>)}

\* mode_change to the modes of FirstRedraw and past them.
ModeEvents ==
    {Event("mode_change", <<ArrObj(<<StrObj("normal"), IntObj(0)>>)>>),
     Event("mode_change", <<ArrObj(<<StrObj("insert"), IntObj(1)>>)>>),
     Event("mode_change", <<ArrObj(<<StrObj("replace"), IntObj(2)>>)>>)}

\* option_set: an option that changes, one that may already hold the
\* value, one set and reset, values of the wrong type, and the two options
\* that are not part of ui_options.
OptionEvents ==
    {Event("option_set", <<OptionTuple("ext_tabline", BoolObj(TRUE))>>),
     Event("option_set", <<OptionTuple("ext_linegrid", BoolObj(TRUE))>>),
     Event("option_set", <<OptionTuple("ext_tabline", BoolObj(TRUE)),
                           OptionTuple("ext_tabline", BoolObj(FALSE))>>),
     Event("option_set", <<OptionTuple("ext_tabline", StrObj("yes"))>>),
     Event("option_set", <<OptionTuple("guifont", StrObj("Menlo:h12"))>>),
     Event("option_set", <<OptionTuple("showtabline", IntObj(2))>>)}

\* Argument tuples with too few arguments, with an argument of the wrong
\* type and that are no arrays.
BadTuples(name) ==
    CASE name = "grid_resize" -> {Ints(<<1, 1>>)}
      [] name = "grid_cursor_goto" ->
            {ArrObj(<<StrObj("a"), IntObj(0), IntObj(0)>>)}
      [] name = "grid_clear" -> {IntObj(1)}
      [] name = "mode_change" -> {ArrObj(<<IntObj(0), StrObj("normal")>>)}
      [] name = "hl_attr_define" ->
            {ArrObj(<<IntObj(1),
                      ArrObj(<<StrObj("bold"), BoolObj(TRUE)>>)>>)}
      [] name = "option_set" -> {ArrObj(<<IntObj(7), BoolObj(TRUE)>>)}

\* Events whose only tuple is bad, an event with an unknown name, and
\* events that are no array or carry no name.
BadEvents ==
    UNION {{Event(name, <<tuple>>) : tuple \in BadTuples(name)} :
              name \in {"grid_resize", "grid_cursor_goto", "grid_clear",
                        "mode_change", "hl_attr_define", "option_set"}}
    \cup {Event("win_extmark", <<Ints(<<1, 1, 1>>)>>),
          IntObj(7),
          ArrObj(<<IntObj(1), Ints(<<1, 1, 1>>)>>)}

\* Notifications that mix bad tuples and events with good ones, and one
\* that shrinks the grid and flushes.
MixedRedraws ==
    {<<Event("grid_resize", <<Ints(<<1, 1>>), Ints(<<1, 1, 1>>)>>),
       Event("grid_cursor_goto", <<Ints(<<1, 0, 0>>)>>)>>,
     <<Event("win_extmark", <<Ints(<<1, 1, 1>>)>>),
       Event("grid_cursor_goto",
             <<ArrObj(<<StrObj("a"), IntObj(0), IntObj(0)>>),
               Ints(<<1, 0, 0>>)>>),
       IntObj(7),
       Event("flush", <<ArrObj(<<>>)>>)>>,
     <<Event("option_set", <<ArrObj(<<IntObj(7), BoolObj(TRUE)>>),
                             OptionTuple("ext_tabline", BoolObj(TRUE))>>),
       Event("mode_change", <<ArrObj(<<IntObj(0), StrObj("normal")>>),
                              ArrObj(<<StrObj("insert"), IntObj(1)>>)>>)>>,
     <<Event("grid_resize", <<Ints(<<1, 1, 1>>)>>),
       Event("flush", <<ArrObj(<<>>)>>)>>}

\* The redraw notifications the peer sends.
RedrawBatches ==
    {FirstRedraw}
    \cup {<<event>> : event \in GridEvents \cup HlEvents \cup ModeEvents
                                \cup OptionEvents \cup BadEvents}
    \cup MixedRedraws

\* process::on_rpc_notification for "redraw": ui.redraw(events)
Redraw(batch) ==
    /\ ~ui.abort
    /\ ui_count < MaxRedraws
    /\ ui' = redraw(ui, batch)
    /\ ui_prev' = ui
    /\ ui_events' = batch
    /\ ui_count' = ui_count + 1
    /\ UNCHANGED not_redraw

RedrawNext ==
    \/ \E batch \in RedrawBatches : Redraw(batch)

(***************************************************************************)
(* Specifications                                                          *)
(***************************************************************************)
RpcInit ==
    /\ TableInit
    /\ timers = {}
    /\ calls = <<>>
    /\ events = <<>>
    /\ silent = {}
    /\ rpc_log = ""
    /\ rpc_abort = FALSE

RpcNext ==
    \/ StoreHandler(FALSE)
    \/ StoreHandlerTimeout(FALSE)
    \/ \E t \in timers : TimerFire(t)
    \/ \E m \in MsgIds : OnRpcResponse(m)

\* The response handler table on its own, the UI at rest.
UiAtRest == UiInit([i \in 0..2 |-> NewGrid(0, 0)])

\* The components at rest while the program is looked at.
LabAtRest == RingAtRest /\ CodecAtRest /\ CellsAtRest /\ RedrawAtRest

\* The program at rest while a component is tried.
ProgramAtRest == RpcInit /\ UiAtRest /\ IoInit

SpecRpcInit == RpcInit /\ UiAtRest /\ IoInit /\ LabAtRest

SpecRpc == SpecRpcInit /\ [][RpcNext]_vars

\* The grid hand-off on its own, no request in flight.
SpecGridInit == GridInit /\ RpcInit /\ IoInit /\ LabAtRest

SpecGrid == SpecGridInit /\ [][GridNext]_vars

\* The I/O loop of process after io_init, nothing registered or sent.
SpecIoInit == RpcInit /\ UiAtRest /\ IoInit /\ LabAtRest

SpecWrite == SpecIoInit /\ [][WriteNext]_vars

SpecRead == SpecIoInit /\ [][ReadNext]_vars

\* The synchronous calls of the main thread against the running loop.
SpecSyncInit == RpcInit /\ UiAtRest /\ IoInit /\ LabAtRest

SpecSync == SpecSyncInit /\ [][SyncNext]_vars

\* A circular_buffer on its own, used as the interface allows.
SpecRingInit ==
    ProgramAtRest /\ RingInit /\ CodecAtRest /\ CellsAtRest /\ RedrawAtRest

SpecRing == SpecRingInit /\ [][RingNext]_vars

\* circular_buffer with the copy and move assignments.
SpecRingAssignInit ==
    ProgramAtRest /\ RingInit /\ CodecAtRest /\ CellsAtRest /\ RedrawAtRest

SpecRingAssign == SpecRingAssignInit /\ [][RingAssignNext]_vars

\* The packer and the unpacker on their own: a stream of packed values is
\* fed in chunks and unpacked.
SpecCodecInit ==
    ProgramAtRest /\ RingAtRest /\ CodecInit /\ CellsAtRest /\ RedrawAtRest

SpecCodec == SpecCodecInit /\ [][CodecNext]_vars

\* One grid with a marker in every cell, written by redraw events.
SpecCellsInit ==
    ProgramAtRest /\ RingAtRest /\ CodecAtRest /\ CellsInit /\ RedrawAtRest

SpecCells == SpecCellsInit /\ [][CellsNext]_vars

\* The redraw notifications of a session, handled by a new controller.
SpecRedrawInit ==
    ProgramAtRest /\ RingAtRest /\ CodecAtRest /\ CellsAtRest /\ RedrawInit

SpecRedraw == SpecRedrawInit /\ [][RedrawNext]_vars

\* The same layer talking to a peer that leaves some requests unanswered.
\* dispatch_after runs every block it was handed.
LiveRpcNext ==
    \/ \E s \in BOOLEAN :
          StoreHandler(s) /\ Len(contexts') <= MaxLiveContexts
    \/ \E s \in BOOLEAN :
          StoreHandlerTimeout(s) /\ Len(contexts') <= MaxLiveContexts
    \/ \E t \in timers : TimerFire(t)
    \/ \E m \in MsgIds : OnRpcResponse(m)

TimerBlocks == [ctx : 1..MaxLiveContexts, stale : BOOLEAN]

LiveRpc ==
    /\ SpecRpcInit
    /\ [][LiveRpcNext]_vars
    /\ \A t \in TimerBlocks : WF_vars(TimerFire(t))

(***************************************************************************)
(* Properties of the response handler table.                               *)
(***************************************************************************)
InFreelist(c) == \E i \in 1..Len(freelist) : freelist[i] = c
SlotsOf(c) == {i \in 1..Len(handler_table) : handler_table[i] = c}
Has(seq, e) == \E i \in 1..Len(seq) : seq[i] = e

\* C1: a handler registered with a timeout is invoked at most once: with
\* timed_out = FALSE when the reply was processed before the timer fired,
\* with timed_out = TRUE when the timer fired first, and not at all while
\* neither happened; the later of the two events never invokes it again.
C1_HandlerInvokedOnce ==
    \A c \in CtxIds :
        contexts[c].has_timeout =>
            calls[c] = IF events[c] = <<>> THEN <<>>
                       ELSE IF Head(events[c]) = "reply" THEN <<FALSE>>
                       ELSE <<TRUE>>

C1_Witness ==
    \E c, d \in CtxIds :
        /\ contexts[c].has_timeout /\ contexts[d].has_timeout
        /\ events[c] = <<"timer", "reply">> /\ calls[c] = <<TRUE>>
        /\ events[d] = <<"reply", "timer">> /\ calls[d] = <<FALSE>>

\* C2: a context is on the free list, once, exactly when its reply has
\* been processed and, if it was registered with a timeout, its timer has
\* fired as well; no pending timer block refers to a context that is on the
\* free list or that was handed out again.
C2_FreedExactlyOnce ==
    /\ \A c \in CtxIds :
          /\ InFreelist(c) <=>
                 /\ Has(events[c], "reply")
                 /\ contexts[c].has_timeout => Has(events[c], "timer")
          /\ Cardinality({i \in 1..Len(freelist) : freelist[i] = c}) <= 1
          /\ InFreelist(c) => SlotsOf(c) = {}
    /\ \A t \in timers : ~t.stale /\ ~InFreelist(t.ctx)

C2_Witness ==
    \E c, d \in CtxIds :
        /\ contexts[c].has_timeout /\ InFreelist(c)
        /\ events[c] = <<"reply", "timer">>
        /\ contexts[d].has_timeout /\ ~InFreelist(d)
        /\ events[d] = <<"reply">>
        /\ \E t \in timers : t.ctx = d

\* C3: a handler registered with a timeout whose request the peer never
\* answers is eventually invoked with timed_out = TRUE, once and for all:
\* from then on it has been invoked exactly once, its context is marked
\* timed out, is not on the free list and keeps its slot.
Unanswered(c) ==
    /\ c \in CtxIds
    /\ c \in silent
    /\ contexts[c].has_timeout

TimedOutForGood(c) ==
    /\ c \in CtxIds
    /\ calls[c] = <<TRUE>>
    /\ contexts[c].timed_out
    /\ ~InFreelist(c)
    /\ Cardinality(SlotsOf(c)) = 1

C3_TimeoutFiresOnce ==
    \A c \in 1..MaxLiveContexts : Unanswered(c) ~> [](TimedOutForGood(c))

C3_Witness ==
    \E c \in CtxIds :
        /\ Unanswered(c)
        /\ TimedOutForGood(c)
        /\ events[c] = <<"timer">>

\* C4: store_handler stores the context in a slot that was empty before
\* the call and returns its index, so every context whose reply has not
\* been processed occupies one slot of its own; when the scan (the slots
\* after last_index, then the slots before it) finds no empty slot the
\* table doubles and the index returned is the old table size.
ScanFindsNoSlot ==
    \A i \in 0..(Len(handler_table) - 1) :
        i # last_index => handler_table[i + 1] # Null

C4_StoreStep ==
    (StoreHandler(FALSE) \/ StoreHandlerTimeout(FALSE)) =>
        LET id == last_index' IN
        /\ id < Len(handler_table) => handler_table[id + 1] = Null
        /\ handler_table'[id + 1] # Null
        /\ \A i \in 1..Len(handler_table) :
              i # id + 1 => handler_table'[i] = handler_table[i]
        /\ ScanFindsNoSlot =>
              /\ id = Len(handler_table)
              /\ Len(handler_table') = 2 * Len(handler_table)

C4_DistinctSlots ==
    \A c \in CtxIds :
        IF Has(events[c], "reply") THEN SlotsOf(c) = {}
        ELSE Cardinality(SlotsOf(c)) = 1

C4_FreshSlot == [](C4_DistinctSlots) /\ [][C4_StoreStep]_vars

C4_Witness ==
    /\ Len(handler_table) = 2 * InitTableSize
    /\ last_index = InitTableSize
    /\ Cardinality({i \in 1..Len(handler_table) :
                        handler_table[i] # Null}) = 3

\* C5: processing a response whose id is null_msgid, lies outside the
\* table or names an empty slot invokes no handler and leaves the table,
\* the contexts, the free list and the pending timers as they were, and
\* the process running.
UnknownId(m) ==
    \/ m = null_msgid
    \/ m >= Len(handler_table)
    \/ handler_table[m + 1] = Null

C5_UnknownIdStep ==
    \A m \in MsgIds :
        (UnknownId(m) /\ OnRpcResponse(m)) =>
            UNCHANGED <<handler_table, contexts, freelist, last_index,
                        timers, calls, rpc_abort>>

C5_UnknownIdNoOp == [][C5_UnknownIdStep]_vars

C5_Witness ==
    /\ rpc_log = "No response handler"
    /\ \E i \in 1..Len(handler_table) : handler_table[i] # Null
    /\ \E i \in 1..Len(handler_table) : handler_table[i] = Null
    /\ freelist # <<>>

(***************************************************************************)
(* Properties of the triple buffering.                                     *)
(***************************************************************************)
\* C6: complete, writing and drawing always point to three different
\* grids, and no step changes the grid the presentation side holds: the
\* grid get_global_grid returned is not the one being written and stays as
\* it is until the presentation side gives it back.
C6_Distinct == Cardinality({complete, writing, drawing}) = 3

C6_Step ==
    \A g \in 0..2 :
        triple_buffered'[g] # triple_buffered[g] =>
            /\ g # drawing
            /\ g # drawing'
            /\ g = writing

C6_TripleBuffer == [](C6_Distinct) /\ [][C6_Step]_vars

C6_Witness ==
    /\ get_pc = "idle"
    /\ returned.count >= 1
    /\ triple_buffered[drawing].draw_tick = 1
    /\ flush_pc = "exchange"
    /\ triple_buffered[writing].draw_tick = 2
    /\ triple_buffered[writing].cells # triple_buffered[drawing].cells

\* C7: the draw ticks of the grids get_global_grid returns never decrease:
\* a call returns a grid at least as new as the one the presentation side
\* held before the call.
C7_TicksNonDecreasing == returned.prev <= returned.tick

C7_Witness ==
    /\ returned.count = 2
    /\ returned.exchanges = 2
    /\ returned.prev >= 1
    /\ returned.tick > returned.prev

\* C8: a get_global_grid call that starts after k flushes have returned
\* returns a grid whose draw tick is at least k.
C8_LatestFrameNotLost ==
    returned.count >= 1 => returned.tick >= returned.after

C8_Witness ==
    /\ returned.count = 2
    /\ returned.after = 2
    /\ returned.tick = 2
    /\ returned.prev = 2
    /\ returned.exchanges = 2

\* C9: a get_global_grid call makes at most two exchanges, whatever
\* flushes run beside it.
C9_BoundedRetry == exchanges <= 2 /\ returned.exchanges <= 2

C9_Witness ==
    /\ get_pc = "check"
    /\ exchanges = 2
    /\ flush_pc = "copy"
    /\ call_flushes < flushes

\* C10: a flush adds one to the draw tick of the writing grid, puts that
\* grid into complete and leaves the new writing grid equal to it in every
\* field; the k-th grid published has draw tick k.
C10_Ticks == \A k \in 1..Len(published) : published[k] = k

C10_Step ==
    /\ (flush_pc = "idle" /\ flush_pc' = "exchange") =>
          /\ triple_buffered'[writing].draw_tick =
                triple_buffered[writing].draw_tick + 1
          /\ triple_buffered' =
                [triple_buffered EXCEPT ![writing].draw_tick = @ + 1]
    /\ (flush_pc = "exchange" /\ flush_pc' = "copy") =>
          /\ complete' = writing
          /\ writing' # writing
          /\ triple_buffered' = triple_buffered
    /\ (flush_pc = "copy" /\ flush_pc' = "idle") =>
          /\ writing' = writing
          /\ triple_buffered'[writing] = triple_buffered'[completed]
          /\ triple_buffered'[completed] = triple_buffered[completed]
          /\ triple_buffered[completed].draw_tick = Len(published)

C10_FlushPublishes == [](C10_Ticks) /\ [][C10_Step]_vars

C10_Witness ==
    /\ published = <<1, 2>>
    /\ flush_pc = "idle"
    /\ returned.count = 2
    /\ triple_buffered[writing] = triple_buffered[completed]
    /\ triple_buffered[writing].cells # <<ZeroCell>>
    /\ triple_buffered[writing].cells # <<>>
    /\ completed = drawing

(***************************************************************************)
(* Properties of the I/O loop.                                             *)
(***************************************************************************)
Count(seq, e) == Cardinality({i \in 1..Len(seq) : seq[i] = e})

IsPrefix(a, b) == Len(a) <= Len(b) /\ SubSeq(b, 1, Len(a)) = a

\* C12: while the write source is not cancelled, whenever write_lock is
\* free the source is suspended exactly when the outbound buffer is empty
\* (and write_state agrees with the suspension count); an rpc_request
\* resumes the source only if it found it suspended, and an io_can_write
\* suspends it exactly when its write emptied the buffer.
C12_Armed ==
    (write_state # "cancelled" /\ write_lock = 0) =>
        /\ write_state = "suspended" <=> packer = <<>>
        /\ write_state = "suspended" <=> write_suspended = 1
        /\ write_state = "resumed" <=> write_suspended = 0

C12_Step ==
    /\ \A t \in Threads :
          (api[t].pc = "resume" /\ api'[t].pc # "resume"
              /\ write_suspended' # write_suspended) =>
                 /\ write_state = "suspended"
                 /\ write_state' = "resumed"
    /\ (wire' # wire) =>
          /\ write_state = "resumed"
          /\ write_state' = IF packer' = <<>> THEN "suspended"
                             ELSE "resumed"

C12_WriteSourceArmed == [](C12_Armed) /\ [][C12_Step]_vars

C12_Witness ==
    /\ Len(sent) = 2
    /\ write_lock = 0
    /\ write_state = "resumed"
    /\ Len(wire) > Len(rpc_request_bytes(sent[1].msgid, sent[1].method,
                                         sent[1].args))
    /\ packer # <<>>
    /\ \A t \in Threads : api[t].pc = "idle"

\* A reader of the byte stream, written from the MessagePack format:
\* positive fixint, uint 32, fixstr and fixarray are the forms the requests
\* of the model use.
ParseFail == [ok |-> FALSE, val |-> 0, rest |-> <<>>]

ParseUint(bytes) ==
    IF bytes = <<>> THEN ParseFail
    ELSE IF bytes[1] < 128
    THEN [ok |-> TRUE, val |-> bytes[1], rest |-> Tail(bytes)]
    ELSE IF bytes[1] = 206 /\ Len(bytes) >= 5
    THEN [ok |-> TRUE,
          val |-> IF SubSeq(bytes, 2, 5) = <<255, 255, 255, 255>>
                  THEN null_msgid
                  ELSE ((bytes[2] * 256 + bytes[3]) * 256 + bytes[4]) * 256
                           + bytes[5],
          rest |-> SubSeq(bytes, 6, Len(bytes))]
    ELSE ParseFail

RECURSIVE ParseUints(_, _)
ParseUints(bytes, n) ==
    IF n = 0 THEN [ok |-> TRUE, val |-> <<>>, rest |-> bytes]
    ELSE LET first == ParseUint(bytes) IN
         IF ~first.ok THEN [ok |-> FALSE, val |-> <<>>, rest |-> <<>>]
         ELSE LET others == ParseUints(first.rest, n - 1) IN
              [ok |-> others.ok, val |-> <<first.val>> \o others.val,
               rest |-> others.rest]

BadRequest == [msgid |-> 0, method |-> <<>>, args |-> <<0, 0, 0>>]

\* One request envelope [0, msgid, method, params] at the head of bytes.
ParseRequest(bytes) ==
    IF Len(bytes) < 2 \/ bytes[1] # 148 \/ bytes[2] # 0
    THEN [ok |-> FALSE, val |-> BadRequest, rest |-> <<>>]
    ELSE LET id == ParseUint(SubSeq(bytes, 3, Len(bytes))) IN
         IF ~id.ok \/ id.rest = <<>> \/ id.rest[1] < 160
               \/ id.rest[1] > 191 \/ Len(id.rest) < id.rest[1] - 159
         THEN [ok |-> FALSE, val |-> BadRequest, rest |-> <<>>]
         ELSE LET size == id.rest[1] - 160
                  after == SubSeq(id.rest, size + 2, Len(id.rest))
              IN  IF after = <<>> \/ after[1] < 144 \/ after[1] > 159
                  THEN [ok |-> FALSE, val |-> BadRequest, rest |-> <<>>]
                  ELSE LET params == ParseUints(Tail(after), after[1] - 144)
                       IN  [ok |-> params.ok,
                            val |-> [msgid |-> id.val,
                                     method |-> SubSeq(id.rest, 2, size + 1),
                                     args |-> params.val],
                            rest |-> params.rest]

RECURSIVE ParseRequests(_)
ParseRequests(bytes) ==
    IF bytes = <<>> THEN <<>>
    ELSE LET first == ParseRequest(bytes) IN
         IF ~first.ok THEN <<BadRequest>>
         ELSE <<first.val>> \o ParseRequests(first.rest)

\* C13: the bytes handed to the transport followed by the bytes still in
\* the buffer are the envelopes [0, msgid, method, params] of the requests,
\* whole and in the order in which the calls took write_lock; a write moves
\* bytes from the head of the buffer to the transport and neither repeats
\* nor skips one.
C13_Stream == ParseRequests(wire \o packer) = sent

C13_Step ==
    /\ IsPrefix(wire, wire')
    /\ IsPrefix(wire \o packer, wire' \o packer')
    /\ (wire' # wire) => (wire' \o packer' = wire \o packer)

C13_EnvelopesInOrder == [](C13_Stream) /\ [][C13_Step]_vars

C13_Witness ==
    /\ Len(sent) = 2
    /\ sent[1] # sent[2]
    /\ sent[1].msgid # null_msgid
    /\ sent[2].msgid = null_msgid
    /\ wire # <<>>
    /\ Len(wire) < Len(rpc_request_bytes(sent[1].msgid, sent[1].method,
                                         sent[1].args))
    /\ \E t \in Threads : api[t].pc = "resume" /\ write_lock = t

\* The source events of the teardown, in the order they happened.
TeardownLog ==
    SelectSeq(io_log, LAMBDA e : e \in {"cancel_write", "cancel_read",
                                        "window.shutdown"})

TeardownOrder ==
    /\ IsPrefix(TeardownLog,
                <<"cancel_write", "cancel_read", "window.shutdown">>)
    /\ \A i \in 1..Len(io_log) :
          io_log[i] = "cancel_write" => (i > 1 /\ io_log[i - 1] = "window.close")
    /\ Has(io_log, "window.close") => io_log[1] = "window.close"

\* C14: once read() has returned 0 the events are window.close(), the
\* cancellation of the write source, the cancellation of the read source
\* and window.shutdown(), in this order, the write source is cancelled at
\* most once however often io_cancel runs, and the teardown ends with
\* window.shutdown() delivered once: the process is not terminated on the
\* way.
C14_TeardownInOrder ==
    /\ TeardownOrder
    /\ Count(io_log, "cancel_write") <= 1
    /\ Count(io_log, "window.shutdown") <= 1
    /\ (peer_closed /\ io_abort # "none") =>
          Count(io_log, "window.shutdown") = 1

C14_Witness ==
    /\ peer_closed
    /\ io_abort = "over_resume"
    /\ io_log = <<"window.close", "cancel_write", "cancel_read">>

\* C19: when read() or write() fails the process keeps running and the
\* connection is torn down through io_cancel: the write source is cancelled
\* (which leads to window.shutdown()).
C19_ErrorTearsDown ==
    Has(io_log, "io_error") =>
        /\ io_abort = "none"
        /\ Has(io_log, "cancel_write")

C19_Witness ==
    /\ io_abort = "io_error"
    /\ io_log[Len(io_log)] = "io_error"
    /\ wire # <<>>
    /\ ~Has(io_log, "cancel_write")

\* A handler is invoked by the step.
Invoked(c) == Len(calls'[c]) > Len(calls[c])

\* C15 as claimed: once io_cancel has cancelled the write source no step
\* invokes the handler of a context, whether it has a timeout or not.
C15_NoContinuationAfterTeardown ==
    [][write_state = "cancelled" => \A c \in CtxIds : ~Invoked(c)]_vars

\* C15 amended: once io_cancel has cancelled the write source no response
\* is processed, so the handler of a context without a timeout is never
\* invoked; the handler of a context with a timeout is invoked once more
\* at most, by its timer, with timed_out = true.
C15_Step ==
    write_state = "cancelled" =>
        /\ inbox' = <<>>
        /\ \A c \in CtxIds :
              Invoked(c) =>
                  /\ contexts[c].has_timeout
                  /\ calls'[c] = <<TRUE>>
                  /\ events'[c] = Append(events[c], "timer")

C15_OnlyTimeoutsAfterTeardown == [][C15_Step]_vars

C15_Witness ==
    /\ \E i, j \in 1..Len(io_log) :
          i < j /\ io_log[i] = "cancel_write" /\ io_log[j] = "timer"
    /\ Has(io_log, "window.shutdown")
    /\ \E c, d \in CtxIds :
          /\ ~contexts[c].has_timeout /\ calls[c] = <<>>
          /\ Cardinality(SlotsOf(c)) = 1
          /\ contexts[d].has_timeout /\ calls[d] = <<TRUE>>
          /\ events[d] = <<"timer">>

\* The shapes of the claim, read off the object.
ShapedResponse(obj) ==
    /\ obj.type = "array"
    /\ Len(obj.items) = 4
    /\ obj.items[1] = IntObj(1)
    /\ obj.items[2].type = "integer"

ShapedNotification(obj) ==
    /\ obj.type = "array"
    /\ Len(obj.items) = 3
    /\ obj.items[1] = IntObj(2)
    /\ obj.items[2].type = "string"
    /\ obj.items[3].type = "array"

\* C20: on_rpc_message handles an object as a response exactly when it is
\* an array of 4 elements with element 0 the integer 1 and element 1 an
\* integer, as a notification exactly when it is an array of 3 elements
\* with the integer 2, a string and an array; any other object changes
\* nothing but the log, and the objects unpacked after it are still
\* handled.
C20_Step ==
    (inbox # <<>> /\ inbox' = Tail(inbox)) =>
        LET obj == Head(inbox) IN
        /\ msg_class' = IF ShapedResponse(obj) THEN "response"
                        ELSE IF ShapedNotification(obj) THEN "notification"
                        ELSE "error"
        /\ ShapedResponse(obj) =>
              LET msgid == obj.items[2].int IN
              (msgid # null_msgid /\ has_handler(msgid)) =>
                  handler_table'[msgid + 1] = Null
        /\ (~ShapedResponse(obj) /\ ~ShapedNotification(obj)) =>
              /\ rpc_log' = "Message type error"
              /\ UNCHANGED <<handler_table, contexts, freelist, last_index,
                             timers, calls, events, silent, rpc_abort>>
              /\ UNCHANGED grid_vars
              /\ UNCHANGED <<write_state, read_state, write_suspended,
                             cancelled, queue_blocks, packer, write_lock,
                             api, wire, sent, peer_closed, io_log, io_abort,
                             mode, results>>

C20_Classification == [][C20_Step]_vars

C20_Witness ==
    /\ msg_class = "response"
    /\ rpc_log = "Message type error"
    /\ inbox = <<>>
    /\ \E c \in CtxIds : calls[c] = <<FALSE>> /\ events[c] = <<"reply">>

(***************************************************************************)
(* Properties of the synchronous calls                                     *)
(***************************************************************************)
\* C11: a flush with a waiter registered signals the semaphore once, clears
\* the waiter and does not call window.redraw(); a flush without a waiter
\* calls window.redraw() and signals nothing. The waiter being cleared, the
\* next flush does not signal it again.
C11_Step ==
    (flush_pc = "copy" /\ flush_pc' = "idle") =>
        IF signal_flush
        THEN /\ semaphore' = semaphore + 1
             /\ ~signal_flush'
             /\ redraws' = redraws
             /\ flush_note' = "signal"
        ELSE /\ redraws' = redraws + 1
             /\ semaphore' = semaphore
             /\ ~signal_flush'
             /\ flush_note' = "redraw"

C11_FlushSignalsOrRedraws == [][C11_Step]_vars

C11_Witness ==
    /\ flushes = 2
    /\ flush_note = "redraw"
    /\ redraws = 1
    /\ semaphore = 0
    /\ Len(results) = 1
    /\ results[1].call = "ui_attach"

\* The main thread is inside the call.
InCall(call) == api[1].pc # "idle" /\ api[1].call = call

ShutdownDelivered == Has(io_log, "window.shutdown")

\* The handlers that are still to be invoked: each has its timeout block
\* pending.
PendingHandlers ==
    {c \in CtxIds : /\ contexts[c].handler
                    /\ ~contexts[c].complete
                    /\ \E t \in timers : t.ctx = c /\ ~t.stale}

\* C16: get_mode always returns and its semaphore is signalled exactly once
\* per call: while the call is in progress the process runs and either the
\* handler has signalled or it is still to be invoked by the reply or the
\* timer, never both; the call returns decoded, timed_out or cancelled.
C16_GetModeReturns ==
    /\ InCall("get_mode") =>
          /\ Running
          /\ semaphore + Cardinality(PendingHandlers) = 1
    /\ \A i \in 1..Len(results) :
          results[i].call = "get_mode" =>
              results[i].value \in {"decoded", "timed_out", "cancelled"}

\* The same while the process runs.
C16_WhileRunning == Running => C16_GetModeReturns

\* The value the handler of get_mode stores: decoded when the reply
\* invokes it, cancelled when the timer invokes it and the write source is
\* cancelled, timed_out when the timer invokes it otherwise; it signals
\* once.
C16_ValueStep ==
    \A c \in CtxIds :
        Invoked(c) =>
            /\ semaphore' = semaphore + 1
            /\ mode' = IF events'[c][Len(events'[c])] = "reply"
                       THEN "decoded"
                       ELSE IF write_state = "cancelled" THEN "cancelled"
                       ELSE "timed_out"

C16_Value == [][C16_ValueStep]_vars

C16_Witness ==
    /\ InCall("get_mode")
    /\ io_abort = "over_resume"
    /\ semaphore = 0
    /\ peer_closed

\* C17: a caller blocked in ui_attach is released: once the connection has
\* shut down the semaphore has been signalled for it.
C17_AttachReleased ==
    (Running /\ InCall("ui_attach") /\ api[1].pc = "attach_wait"
        /\ ShutdownDelivered) => semaphore > 0

C17_Witness ==
    /\ Running
    /\ api[1].pc = "attach_wait"
    /\ ShutdownDelivered
    /\ semaphore = 0
    /\ signal_flush
    /\ flushes = 0

\* C18: ui_attach_wait returns and leaves the count of the semaphore at
\* zero: a caller in the last wait after the connection has shut down has
\* been signalled, and after the call has returned the count is zero.
C18_AttachWaitReleased ==
    /\ (Running /\ api[1].pc = "final_wait" /\ ShutdownDelivered) =>
          semaphore > 0
    /\ (api[1].pc = "idle" /\ results # <<>>) =>
          (results[Len(results)].call = "ui_attach_wait" => semaphore = 0)

C18_CountZero ==
    (api[1].pc = "idle" /\ results # <<>>) =>
        /\ semaphore = 0
        /\ ~signal_flush
        /\ ~signal_enter

C18_Witness ==
    /\ Running
    /\ api[1].pc = "final_wait"
    /\ ShutdownDelivered
    /\ semaphore = 0
    /\ signal_flush
    /\ ~is_drawable

(***************************************************************************)
(* Properties of circular_buffer                                           *)
(***************************************************************************)
\* C26: after any sequence of insert, push_back and consume(n <= size())
\* the readable bytes are the inserted bytes without the consumed prefix,
\* in insertion order, whether the bytes fit, the buffer grew or the
\* window runs past the physical end.
C26_RingFifo == data(cbuf) = cbuf_fifo

\* insert A, insert B, consume |A|, insert C reads back B C, the buffer
\* having grown and the window running past the physical end.
C26_Witness ==
    /\ cbuf.buffsize > PageSize
    /\ cbuf.index > 0
    /\ cbuf.index + cbuf.length > cbuf.buffsize
    /\ Len(cbuf_fifo) >= 2
    /\ cbuf_fifo[1] > 1
    /\ data(cbuf) = cbuf_fifo

\* The step does not fit: an insert or push_back of more bytes than
\* capacity() - size().
DoesNotFit ==
    /\ cbuf_ops' > cbuf_ops
    /\ cbuf_ops' - cbuf_ops > cbuf.buffsize - cbuf.length

\* C27 as claimed: size() <= capacity(), capacity() never decreases, and
\* the buffer grows only when an insert or push_back does not fit, each
\* growth at least doubling the capacity and making room for the old and
\* the new bytes.
C27_GrowthStepClaimed ==
    /\ cbuf'.length <= cbuf'.buffsize
    /\ cbuf'.buffsize >= cbuf.buffsize
    /\ cbuf'.buffsize > cbuf.buffsize =>
          /\ DoesNotFit
          /\ cbuf'.buffsize >= 2 * cbuf.buffsize
          /\ cbuf'.buffsize >= cbuf.length + (cbuf_ops' - cbuf_ops)

C27_GrowsOnlyOnInsert == [][C27_GrowthStepClaimed]_vars

\* C27 amended: the buffer grows when an insert or push_back does not fit
\* and also when reserve asks for more than capacity(); insert and
\* push_back grow it in no other case.
C27_GrowthStep ==
    /\ cbuf'.length <= cbuf'.buffsize
    /\ cbuf'.buffsize >= cbuf.buffsize
    /\ cbuf_ops' > cbuf_ops =>
          (cbuf'.buffsize > cbuf.buffsize <=> DoesNotFit)
    /\ cbuf'.buffsize > cbuf.buffsize =>
          /\ cbuf'.buffsize >= 2 * cbuf.buffsize
          /\ cbuf'.buffsize >= cbuf.length + (cbuf_ops' - cbuf_ops)
          /\ cbuf'.length = cbuf.length + (cbuf_ops' - cbuf_ops)

C27_Growth == [][C27_GrowthStep]_vars

C27_Witness ==
    /\ cbuf.buffsize = 4 * PageSize
    /\ cbuf.length > PageSize
    /\ cbuf.length = cbuf_ops
    /\ cbuf.index = 0

\* The first message of the stream, when it is an unsigned integer.
FirstUint == codec_vals # <<>> /\ codec_vals[1].kind = "uint"

\* The smallest number of payload bytes that hold an unsigned value: 0 for
\* a value below 128, which needs no prefix.
ShortestWidth(val) ==
    LET top == IF \E i \in 1..8 : val[i] # 0
               THEN CHOOSE i \in 1..8 :
                        val[i] # 0 /\ \A j \in (i + 1)..8 : val[j] = 0
               ELSE 1
    IN  IF top = 1 /\ val[1] < 128 THEN 0
        ELSE IF top = 1 THEN 1
        ELSE IF top = 2 THEN 2
        ELSE IF top <= 4 THEN 4
        ELSE 8

\* C25: pack_uint64 emits the shortest encoding: one byte below 128, else
\* the prefix 0xcc, 0xcd, 0xce or 0xcf of the smallest of 1, 2, 4 and 8
\* bytes that holds the value, followed by the value big-endian.
C25_ShortestEncoding ==
    FirstUint =>
        LET val == codec_vals[1].data
            width == ShortestWidth(val)
            bytes == pack_uint64(val)
        IN  IF width = 0 THEN bytes = <<val[1]>>
            ELSE /\ Len(bytes) = width + 1
                 /\ bytes[1] = CASE width = 1 -> 204 [] width = 2 -> 205
                                 [] width = 4 -> 206 [] width = 8 -> 207
                 /\ \A i \in 1..width : bytes[i + 1] = val[width + 1 - i]

\* 2^32 was packed and fed: the first value that takes the 8 byte form.
C25_Witness ==
    /\ FirstUint
    /\ codec_vals[1].data = <<0, 0, 0, 0, 1, 0, 0, 0>>
    /\ pack_uint64(codec_vals[1].data) = <<207, 0, 0, 0, 1, 0, 0, 0, 0>>
    /\ codec_rest = <<>>

\* Every message of the stream came from the packer.
AllPacked == \A i \in 1..Len(codec_vals) : codec_vals[i].kind # "raw"

\* The whole stream was fed and unpack() has returned nullptr.
Drained == codec_rest = <<>> /\ codec_ret = "nullptr"

\* C24: the objects unpacked from the packer's output are the values
\* packed, in order and structurally equal (integers as 64 bit patterns):
\* one object for each value, then nullptr.
C24_RoundTrip ==
    AllPacked =>
        /\ Len(codec_out) <= Len(codec_vals)
        /\ \A i \in 1..Len(codec_out) :
               codec_out[i] = ObjectOf(codec_vals[i])
        /\ Drained => Len(codec_out) = Len(codec_vals)

\* A nested array with a negative integer went through the codec alone.
C24_Witness ==
    /\ Drained
    /\ codec_vals = <<Arr(<<Arr(<<SInt(int64_neg(33))>>), Arr(<<>>),
                            Uint(uint64_t(1))>>)>>
    /\ codec_out = <<ObjectOf(codec_vals[1])>>
    /\ codec_out[1].items[1].items[1].data
           = <<223, 255, 255, 255, 255, 255, 255, 255>>

\* The objects a fresh unpacker returns for a stream fed in one piece:
\* unpack() is called until it returns nullptr.
RECURSIVE UnpackAll(_)
UnpackAll(u) ==
    IF unpack_result(u) = 0 THEN <<>>
    ELSE <<object_at(unpack(u).arena, 1)>> \o UnpackAll(unpack(u))

DecodeWhole(bytes) == UnpackAll(feed(make, bytes))

\* C22: however the stream is split into chunks, the objects returned are
\* those returned when the stream is fed at once: a prefix of them while
\* the stream is being fed, all of them once it is drained.
C22_FragmentationInvariance ==
    LET whole == DecodeWhole(pack_all(codec_vals)) IN
    /\ Len(codec_out) <= Len(whole)
    /\ codec_out = SubSeq(whole, 1, Len(codec_out))
    /\ Drained => codec_out = whole

\* A stream of a 64 bit integer and a string was fed one byte at a time,
\* with an empty chunk in between, and both objects came out.
C22_Witness ==
    /\ Drained
    /\ codec_empty
    /\ codec_vals = <<Uint(<<1, 2, 3, 4, 5, 6, 7, 8>>), Str(<<111, 107>>)>>
    /\ codec_bytewise
    /\ Len(codec_out) = 2

\* The bytes of the first n messages of the stream.
MessagesEnd(n) == Len(pack_all(SubSeq(codec_vals, 1, n)))

\* The bytes fed so far.
Fed == Len(pack_all(codec_vals)) - Len(codec_rest)

\* The input fed and not yet returned as an object holds a complete
\* message.
CompletePending ==
    /\ Len(codec_out) < Len(codec_vals)
    /\ Fed >= MessagesEnd(Len(codec_out) + 1)

\* C23: a call of unpack() returns nullptr only with all input consumed,
\* and returns an object when the unconsumed input holds a complete
\* message.
C23_Step ==
    codec_ret' # "fed" =>
        /\ codec_ret' = "nullptr" => unp'.buffer = <<>>
        /\ CompletePending => codec_ret' = "object"

C23_NullOnlyWhenExhausted == [][C23_Step]_vars

\* unpack() returned nullptr in the middle of a message, after it had
\* returned an object from the same chunk.
C23_Witness ==
    /\ codec_ret = "nullptr"
    /\ Len(codec_out) = 1
    /\ Len(codec_vals) = 2
    /\ Fed > MessagesEnd(1)
    /\ codec_rest # <<>>
    /\ ~codec_bytewise
    /\ unp.waitlen > 0
    /\ unp.buffer = <<>>

\* The cell of a grid at a row and a column.
CellAt(g, row, col) == g.cells[grid_get(g, row, col) + 1]

\* The last event was a grid_scroll of a region inside the grid.
ScrollInside ==
    /\ cg_event.name = "grid_scroll"
    /\ cg_event.args[1] <= cg_event.args[2]
    /\ cg_event.args[2] <= cg_prev.grid_height
    /\ cg_event.args[3] <= cg_event.args[4]
    /\ cg_event.args[4] <= cg_prev.grid_width

\* C28: after grid_scroll(1, top, bottom, left, right, rows) of a region
\* inside the grid, a cell of the region whose source row i + rows lies in
\* the region holds what that row held, every other cell is unchanged, and
\* nothing but the cells has changed.
C28_ScrollIsReference ==
    ScrollInside =>
        LET top == cg_event.args[1]
            bottom == cg_event.args[2]
            left == cg_event.args[3]
            right == cg_event.args[4]
            rows == cg_event.args[5]
        IN  /\ [cg EXCEPT !.cells = cg_prev.cells] = cg_prev
            /\ \A i \in 0..(cg.grid_height - 1), c \in 0..(cg.grid_width - 1) :
                   CellAt(cg, i, c) =
                       IF /\ top <= i /\ i < bottom
                          /\ left <= c /\ c < right
                          /\ top <= i + rows /\ i + rows < bottom
                       THEN CellAt(cg_prev, i + rows, c)
                       ELSE CellAt(cg_prev, i, c)
            /\ (rows >= bottom - top \/ 0 - rows >= bottom - top)
                   => cg = cg_prev

\* A region of three rows was scrolled by one row towards the bottom, the
\* source and destination rows overlapping, after a scroll towards the top.
C28_Witness ==
    /\ ScrollInside
    /\ cg_count = 2
    /\ cg_event.args = <<0, 3, 0, 2, -1>>
    /\ cg # cg_prev
    /\ CellAt(cg, 2, 0) = CellAt(cg_prev, 1, 0)
    /\ CellAt(cg, 1, 0) = CellAt(cg_prev, 0, 0)
    /\ CellAt(cg_prev, 0, 0) # CellAt(cg_prev, 1, 0)
    /\ CellAt(cg_prev, 1, 0) # CellAt(cg_prev, 2, 0)

\* The last event was a grid_line at a cell of the grid.
LineInside ==
    /\ cg_event.name = "grid_line"
    /\ cg_event.args[1] < cg_prev.grid_height
    /\ cg_event.args[2] < cg_prev.grid_width

\* The index of the first cell of the row the last grid_line wrote to.
LineRowBegin == cg_event.args[1] * cg_prev.grid_width

\* The loop of the last grid_line before its update j: the cells, the
\* write position, the counter remaining, and whether the call has
\* returned.
LineBefore(j) ==
    grid_line_loop([cells |-> cg_prev.cells,
                    cell |-> LineRowBegin + cg_event.args[2],
                    remaining |-> cg_prev.grid_width - cg_event.args[2],
                    hlattr |-> NullAttrs, done |-> FALSE, fault |-> FALSE],
                   LineRowBegin, SubSeq(cg_event.cells, 1, j - 1),
                   CellsHlTable)

\* The repeat count an update carries, 1 when it names none.
RepeatOf(update) ==
    IF update.repeat = NoArg THEN 1
    ELSE IF update.repeat[1] < 0 THEN SizeWrapped
    ELSE update.repeat[1]

\* The columns of the row to the right of the write position.
WidthLeft(st) == cg_prev.grid_width - (st.cell - LineRowBegin)

\* C29: when grid_line reaches an update whose repeat count exceeds the
\* remaining width of the row, the cells are left as the updates before it
\* made them and the events that follow are processed.
C29_OverflowAborts ==
    LineInside =>
        \A j \in 1..Len(cg_event.cells) :
            LET before == LineBefore(j)
                update == cg_event.cells[j]
            IN  (/\ ~before.done
                 /\ update.well_typed
                 /\ RepeatOf(update) > WidthLeft(before))
                    => /\ ~cg_abort
                       /\ cg.cells = before.cells

\* A call wrote one cell and stopped at an update that asks for more cells
\* than the row has left.
C29_Witness ==
    /\ LineInside
    /\ ~cg_abort
    /\ Len(cg_event.cells) = 3
    /\ ~LineBefore(2).done
    /\ RepeatOf(cg_event.cells[2]) > WidthLeft(LineBefore(2))
    /\ cg.cells = LineBefore(2).cells
    /\ cg.cells # cg_prev.cells

\* C30: an update with empty text that grid_line applies at a column
\* greater than 0 marks the cell to its left as double width, gives the
\* empty cell of the row the attributes of the left cell and size 0, and
\* moves the write position and the counter remaining by one column.
C30_EmptyCellAdvancesOne ==
    LineInside =>
        \A j \in 1..Len(cg_event.cells) :
            LET before == LineBefore(j)
                after == LineBefore(j + 1)
                update == cg_event.cells[j]
            IN  (/\ ~before.done
                 /\ update.well_typed
                 /\ update.text = <<>>
                 /\ before.cell > LineRowBegin
                 /\ RepeatOf(update) <= before.remaining)
                    => /\ ~after.fault
                       /\ WidthLeft(before) > 0
                       /\ "doublewidth"
                              \in after.cells[before.cell].attrs.flags
                       /\ after.cells[before.cell + 1].attrs
                              = after.cells[before.cell].attrs
                       /\ after.cells[before.cell + 1].size = 0
                       /\ after.cell = before.cell + 1
                       /\ after.remaining = before.remaining - 1

\* An empty update with repeat count 0 was applied where the row was full:
\* the call wrote to the first cell of the next row.
C30_Witness ==
    /\ LineInside
    /\ ~cg_abort
    /\ cg_event.args = <<0, 0>>
    /\ Len(cg_event.cells) = 2
    /\ cg_event.cells[2].text = <<>>
    /\ WidthLeft(LineBefore(2)) = 0
    /\ ~LineBefore(2).done
    /\ cg.cells[cg.grid_width + 1] # cg_prev.cells[cg.grid_width + 1]

\* C21: no redraw event terminates the process, whatever grid id, row,
\* column or cell array it carries.
C21_NoEventTerminates == ui_abort = FALSE

(***************************************************************************)
(* Further properties of the triple buffering.                             *)
(***************************************************************************)
\* flush() has put at least one grid into complete.
FlushProcessed == Len(published) > 0

\* C36: is_drawable() returns true if and only if at least one flush has
\* been processed, whatever get_global_grid calls the presentation side
\* has made in between.
C36_DrawableIffFlushed == is_drawable <=> FlushProcessed

\* A flush has returned, get_global_grid has taken its grid and left the
\* grid it held before in complete: is_drawable() is false.
C36_Witness ==
    /\ flushes > 0
    /\ flush_pc = "idle"
    /\ get_pc = "idle"
    /\ returned.count > 0
    /\ returned.tick > 0
    /\ ~is_drawable

(***************************************************************************)
(* Further properties of the I/O loop.                                     *)
(***************************************************************************)
\* The suspension count of the write source is 0 or 1, no dispatch_resume
\* found the source resumed, and write_state says what the source is.
C38_Balance ==
    /\ write_suspended \in {0, 1}
    /\ io_abort # "over_resume"
    /\ write_state = "resumed" => write_suspended = 0
    /\ write_state = "suspended" => write_suspended = 1

\* Nothing touches the write source once it is cancelled.
C38_Step ==
    "write" \in cancelled =>
        /\ write_suspended' = write_suspended
        /\ write_state' = "cancelled"
        /\ io_abort' # "over_resume"

\* C38: under every interleaving of rpc_request with io_can_write and
\* io_cancel the resume and suspend calls on the write source stay
\* balanced and write_state matches the source: the source is never
\* resumed while resumed, never suspended while suspended, and never
\* resumed, suspended or marked resumed after it was cancelled.
C38_WriteSourceBalanced == [](C38_Balance) /\ [][C38_Step]_vars

\* A request read write_state before io_cancel ran and resumed the
\* cancelled source after it.
C38_Witness ==
    /\ io_abort = "over_resume"
    /\ "write" \in cancelled
    /\ write_state = "cancelled"
    /\ \E t \in Threads : api[t].pc = "resume" /\ api[t].seen = "suspended"

(***************************************************************************)
(* Further properties of circular_buffer                                   *)
(***************************************************************************)
\* C40: the capacity of a circular_buffer is zero or a power of two after
\* any sequence of construction, insert, push_back, reserve, consume, clear
\* and copy or move assignment, so that the index consume computes is
\* (index + n) mod capacity for every n <= size(), and the read index
\* stays below the capacity.
C40_CapacityPowerOfTwo ==
    /\ cbuf.buffsize = 0 \/ PowerOfTwo(cbuf.buffsize, 1) = cbuf.buffsize
    /\ cbuf.buffsize > 0 =>
          /\ cbuf.index < cbuf.buffsize
          /\ \A n \in 0..cbuf.length :
                consume_index(cbuf, n) = (cbuf.index + n) % cbuf.buffsize

\* A buffer of two pages was assigned a buffer of more than two pages and
\* holds three pages; a consume has moved its index to a byte that is not
\* the next one.
C40_Witness ==
    /\ cbuf.buffsize = 3 * PageSize
    /\ cbuf.length > 0
    /\ data(cbuf) # cbuf_fifo

\* The loop of the last grid_line after its last update.
LineAfter == LineBefore(Len(cg_event.cells) + 1)

\* The indexes of the cells the last grid_line may write: the cells of its
\* row from the column to the left of col, or from col when col is 0.
LineCellsAllowed ==
    LET col == cg_event.args[2]
        first == IF col > 0 THEN col - 1 ELSE 0
    IN  (LineRowBegin + first + 1)..(LineRowBegin + cg_prev.grid_width)

\* C37: a grid_line call at a cell of the grid writes only cells of its
\* row at columns in [max(col - 1, 0), width), whatever updates it carries:
\* no cell of another row and no position past the cell array is written,
\* and the counter remaining never underflows.
C37_LineStaysInRow ==
    LineInside =>
        /\ \A i \in 1..Len(cg_prev.cells) :
              cg.cells[i] # cg_prev.cells[i] => i \in LineCellsAllowed
        /\ \A j \in 1..(Len(cg_event.cells) + 1) :
              /\ LineBefore(j).remaining <= cg_prev.grid_width
              /\ LineBefore(j).cell <= LineRowBegin + cg_prev.grid_width
        /\ LineAfter.fault => LineAfter.hlattr = NullAttrs

\* On the last row, an update that fills the row was followed by an empty
\* update with repeat count 0: the call wrote past the cell array.
C37_Witness ==
    /\ LineInside
    /\ cg_event.args[1] = cg_prev.grid_height - 1
    /\ cg_abort
    /\ LineAfter.fault
    /\ LineAfter.hlattr # NullAttrs
    /\ LineAfter.cell = Len(cg_prev.cells)

(***************************************************************************)
(* Properties of redraw                                                    *)
(***************************************************************************)
\* The last notification carried one event of the given name with one
\* argument tuple that is an array.
OneEvent(name) ==
    /\ Len(ui_events) = 1
    /\ ui_events[1].type = "array"
    /\ Len(ui_events[1].items) = 2
    /\ ui_events[1].items[1] = StrObj(name)
    /\ ui_events[1].items[2].type = "array"

\* The arguments of that event.
EventArgs == ui_events[1].items[2].items

\* The last notification was one hl_attr_define(id, attrs) with id >= 1.
HlDefined ==
    /\ OneEvent("hl_attr_define")
    /\ Len(EventArgs) = 2
    /\ EventArgs[1].type = "integer"
    /\ EventArgs[2].type = "map"
    /\ EventArgs[1].int >= 1

\* The keys of a map and the integer a key is given.
HasKey(pairs, key) ==
    \E i \in 1..(Len(pairs) \div 2) : pairs[2 * i - 1] = StrObj(key)
GivenInt(pairs, key) ==
    pairs[2 * (CHOOSE i \in 1..(Len(pairs) \div 2) :
                   pairs[2 * i - 1] = StrObj(key))].int

\* The red, green and blue components of a colour of the table and of the
\* integer 0xRRGGBB an event carries.
Components(color) == <<red(color), green(color), blue(color)>>
GivenComponents(rgb) ==
    <<(rgb \div 65536) % 256, (rgb \div 256) % 256, rgb % 256>>

\* The colour hl_attr_define is to give a field: the one named in attrs,
\* else the one of the default entry.
ColourFor(attrs, key, default) ==
    IF HasKey(attrs, key) THEN GivenComponents(GivenInt(attrs, key))
    ELSE Components(default)

\* C31: after hl_attr_define(id, attrs) with id >= 1, below, equal to or
\* beyond the size of the highlight table, the entry looked up for id has
\* the colours and flags named in attrs, the values of the default entry
\* (index 0) in the other fields, and foreground and background swapped
\* when the reverse flag is set.
C31_DefinedEntryIsFound ==
    HlDefined =>
        LET attrs == EventArgs[2].items
            default == ui_prev.hl_table[1]
            entry == hl_get_entry(ui.hl_table, EventArgs[1].int)
            reversed == HasKey(attrs, "reverse")
            fg == ColourFor(attrs, "foreground", default.foreground)
            bg == ColourFor(attrs, "background", default.background)
        IN  /\ Components(entry.foreground) = IF reversed THEN bg ELSE fg
            /\ Components(entry.background) = IF reversed THEN fg ELSE bg
            /\ Components(entry.special)
                  = ColourFor(attrs, "special", default.special)
            /\ entry.flags
                  = default.flags \cup {f \in HlFlags : HasKey(attrs, f)}

\* hl_attr_define(3, {bold, special}) on a table of one entry: the table
\* has three entries, the definition is in the entry of id 2, and id 3 is
\* looked up as the default entry.
C31_Witness ==
    /\ HlDefined
    /\ EventArgs[1].int = 3
    /\ Len(ui_prev.hl_table) = 1
    /\ Len(ui.hl_table) = 3
    /\ "bold" \in ui.hl_table[3].flags
    /\ hl_get_entry(ui.hl_table, 3) = ui.hl_table[1]
    /\ "bold" \notin ui.hl_table[1].flags

\* The integer arguments of the last event, when it has count of them (and,
\* for grid_line, the cells after them).
IntArgs(count) ==
    /\ Len(EventArgs) >= count
    /\ \A i \in 1..count : EventArgs[i].type = "integer" /\ EventArgs[i].int >= 0

\* The last notification was one event with an index outside the grid or
\* the mode table as they were before it.
CursorGotoOutside ==
    /\ OneEvent("grid_cursor_goto") /\ Len(EventArgs) = 3 /\ IntArgs(3)
    /\ \/ EventArgs[2].int >= ui_prev.writing.grid_height
       \/ EventArgs[3].int >= ui_prev.writing.grid_width
LineOutside ==
    /\ OneEvent("grid_line") /\ Len(EventArgs) = 4 /\ IntArgs(3)
    /\ EventArgs[4].type = "array"
    /\ \/ EventArgs[2].int >= ui_prev.writing.grid_height
       \/ EventArgs[3].int >= ui_prev.writing.grid_width
ScrollOutside ==
    /\ OneEvent("grid_scroll") /\ Len(EventArgs) = 6 /\ IntArgs(5)
    /\ EventArgs[6].type = "integer"
    /\ \/ EventArgs[3].int > ui_prev.writing.grid_height
       \/ EventArgs[5].int > ui_prev.writing.grid_width
       \/ EventArgs[3].int < EventArgs[2].int
       \/ EventArgs[5].int < EventArgs[4].int
ModeOutside ==
    /\ OneEvent("mode_change") /\ Len(EventArgs) = 2
    /\ EventArgs[1].type = "string"
    /\ EventArgs[2].type = "integer"
    /\ EventArgs[2].int >= Len(ui_prev.mode_table)

\* C32: grid_cursor_goto with row >= height or col >= width leaves the
\* cursor where it was, grid_line with a start position outside the grid
\* and grid_scroll with bottom > height, right > width, bottom < top or
\* right < left change no cell, and mode_change with an index outside the
\* mode table leaves the cursor attributes unchanged.
C32_OutOfBoundsChangesNothing ==
    /\ CursorGotoOutside =>
          /\ ui.writing.cursor_row = ui_prev.writing.cursor_row
          /\ ui.writing.cursor_col = ui_prev.writing.cursor_col
    /\ LineOutside => ui.writing.cells = ui_prev.writing.cells
    /\ ScrollOutside => ui.writing.cells = ui_prev.writing.cells
    /\ ModeOutside => ui.cursor_attrs = ui_prev.cursor_attrs

\* grid_cursor_goto(1, 2, 0) on the grid of two rows and two columns whose
\* cursor is at (1, 1): the cursor stays.
C32_Witness ==
    /\ CursorGotoOutside
    /\ ui_prev.writing.grid_height = 2
    /\ EventArgs[2].int = 2
    /\ ui.writing.cursor_row = 1
    /\ ui.writing.cursor_col = 1

\* The other cases of C32, each on written state.
C32_LineCase ==
    LineOutside /\ ui_prev.writing.grid_height = 2 /\ ui.writing.cells # <<>>
C32_ScrollCase ==
    ScrollOutside /\ ui_prev.writing.grid_height = 2 /\ ui.writing.cells # <<>>
C32_ModeCase ==
    ModeOutside /\ Len(ui_prev.mode_table) = 2 /\ EventArgs[2].int = 2

\* An object has the type a parameter of a redraw event asks for.
Fits(T, object) ==
    CASE T = "size_t" -> object.type = "integer"
      [] T = "long" -> object.type = "integer"
      [] T = "bool" -> object.type = "boolean"
      [] T = "string" -> object.type = "string"
      [] T = "array" -> object.type = "array"
      [] T = "map" -> object.type = "map"
      [] T = "object" -> TRUE

\* An argument tuple with an argument of the right type for each parameter
\* of the event.
GoodTuple(name, tuple) ==
    /\ tuple.type = "array"
    /\ Len(tuple.items) >= Len(Signature(name))
    /\ \A i \in 1..Len(Signature(name)) :
          Fits(Signature(name)[i], tuple.items[i])

\* An event with a name redraw knows.
GoodEvent(event) ==
    /\ event.type = "array"
    /\ event.items # <<>>
    /\ event.items[1].type = "string"
    /\ event.items[1].str \in AppliedEvents \cup {"option_set"}

\* A batch without its bad events and bad argument tuples.
WithoutBad(batch) ==
    LET Good(event) == GoodEvent(event)
        Clean(event) ==
            LET Fit(tuple) == GoodTuple(event.items[1].str, tuple) IN
            ArrObj(<<event.items[1]>> \o SelectSeq(Tail(event.items), Fit))
        good == SelectSeq(batch, Good)
    IN  [i \in 1..Len(good) |-> Clean(good[i])]

\* C33: an event tuple whose arguments have the wrong types or too few
\* arguments, and an event with an unknown name, change no UI state, and
\* every other event and argument tuple of the batch is applied, in order,
\* as if the bad one were absent: the state after a batch is the state
\* after the batch without its bad events and tuples.
C33_BadTuplesAreSkipped ==
    ui = redraw(ui_prev, WithoutBad(ui_events))

\* A batch with an unknown event, a bad tuple and an event that is no
\* array, whose good grid_cursor_goto and flush were applied.
C33_Witness ==
    /\ Len(ui_events) = 4
    /\ Len(WithoutBad(ui_events)) = 2
    /\ Len(WithoutBad(ui_events)[1].items) = 2
    /\ ui_prev.writing.grid_height = 2
    /\ ui_prev.writing.cursor_row = 1
    /\ ui.writing.cursor_row = 0
    /\ ui.complete.draw_tick # ui_prev.complete.draw_tick

\* A batch of one bad event left all UI state as it was.
C33_BadOnly ==
    /\ ui_count = 2
    /\ Len(ui_events) = 1
    /\ WithoutBad(ui_events) # ui_events
    /\ ui = ui_prev
    /\ ui.writing.grid_height = 2

\* The notifications the window got during the last redraw.
NewNotes == SubSeq(ui.notes, Len(ui_prev.notes) + 1, Len(ui.notes))

\* How often the window's options_set was called during the last redraw.
OptionsSetCalls ==
    Cardinality({i \in 1..Len(NewNotes) : NewNotes[i] = "window.options_set"})

\* The last notification held exactly one option_set event.
OneOptionSet ==
    Cardinality({i \in 1..Len(ui_events) :
                    /\ ui_events[i].type = "array"
                    /\ ui_events[i].items # <<>>
                    /\ ui_events[i].items[1] = StrObj("option_set")}) = 1

\* C34: processing an option_set event calls the window's options_set only
\* if ui_options after the event differs from ui_options before it; an
\* event that leaves every option equal triggers no call.
C34_OptionsSetOnlyOnChange ==
    OneOptionSet =>
        /\ OptionsSetCalls <= 1
        /\ OptionsSetCalls = 1 => ui.ui_opts # ui_prev.ui_opts
        /\ ui.ui_opts = ui_prev.ui_opts => OptionsSetCalls = 0

\* option_set with ext_tabline true and then false in one event: the
\* options end as they were, and the window is not called.
C34_Witness ==
    /\ OneOptionSet
    /\ Len(ui_events) = 1
    /\ Len(ui_events[1].items) = 3
    /\ ui_events[1].items[2] = OptionTuple("ext_tabline", BoolObj(TRUE))
    /\ send_option_change(ui_prev)
    /\ ~ui_prev.ui_opts["ext_tabline"]
    /\ ui.ui_opts = ui_prev.ui_opts
    /\ OptionsSetCalls = 0

\* option_set that changes ext_tabline: the window is called once.
C34_ChangedCase ==
    /\ OneOptionSet
    /\ ui.ui_opts # ui_prev.ui_opts
    /\ OptionsSetCalls = 1

\* The last notification was one grid_resize(1, w, h).
GlobalGridResized ==
    /\ OneEvent("grid_resize") /\ Len(EventArgs) = 3 /\ IntArgs(3)
    /\ EventArgs[1].int = 1

C39_PublishedCursorInside ==
    (/\ ui.complete.draw_tick > 0
     /\ ui.complete.grid_width > 0
     /\ ui.complete.grid_height > 0) =>
        /\ ui.complete.cursor_row < ui.complete.grid_height
        /\ ui.complete.cursor_col < ui.complete.grid_width

\* grid_cursor_goto(1, 1, 1) on the grid of two rows and two columns, then
\* grid_resize(1, 1, 1) and flush: the published grid has one cell and its
\* cursor is at (1, 1), three cells past the end of the cell array.
C39_Witness ==
    /\ ui_count = 2
    /\ ui_prev.complete.grid_width = 2
    /\ ui_prev.complete.cursor_row = 1
    /\ ui_prev.complete.cursor_col = 1
    /\ ui.complete.draw_tick > ui_prev.complete.draw_tick
    /\ ui.complete.grid_width = 1
    /\ ui.complete.grid_height = 1
    /\ Len(ui.complete.cells) = 1
    /\ ui.complete.cursor_row = 1
    /\ ui.complete.cursor_col = 1

=============================================================================
